---- MODULE Spec2Model ----
(***************************************************************************)
(* Oxiphant back end: the bytecode generator (src/src/codegen.rs) as a     *)
(* state machine.  The recursion of CodeGenerator::generate_node is made   *)
(* explicit as a stack of frames, one frame per active call, each with the *)
(* position it has reached in its match arm and the arm's local variables. *)
(* Instruction indices are 0-based as in the source; TLA+ sequences are    *)
(* 1-based, so the instruction at source index k is instrs[k + 1].         *)
(***************************************************************************)
EXTENDS Integers, Sequences, FiniteSets, TLC

(***************************************************************************)
(* Bounds of the model.                                                    *)
(***************************************************************************)
\* Nesting depth of compound statements in the syntax trees handed to generate.
MaxDepth == 2
\* Number of generate calls made in one behaviour of SpecRepeat.
MaxCalls == 3
\* Operand-stack depths followed by the stack-balance analysis.
MaxStack == 6
\* Calls of AsmGenerator::generate on one generator.
MaxLowerings == 3

(***************************************************************************)
(* Instruction (codegen.rs): op is the variant, name the String payload,   *)
(* n the numeric payload; a variant without a payload has name "" and n 0. *)
(* PushBool carries 1 for true and 0 for false.                            *)
(***************************************************************************)
Instruction(op, name, n) == [op |-> op, name |-> name, n |-> n]
Plain(op) == Instruction(op, "", 0)
PushInt(v) == Instruction("PushInt", "", v)
PushFloat(v) == Instruction("PushFloat", "", v)
PushString(s) == Instruction("PushString", s, 0)
PushBool(b) == Instruction("PushBool", "", IF b THEN 1 ELSE 0)
PushNull == Plain("PushNull")
Pop == Plain("Pop")
LoadVar(s) == Instruction("LoadVar", s, 0)
StoreVar(s) == Instruction("StoreVar", s, 0)
Jump(t) == Instruction("Jump", "", t)
JumpIfFalse(t) == Instruction("JumpIfFalse", "", t)
JumpIfTrue(t) == Instruction("JumpIfTrue", "", t)
Label(t) == Instruction("Label", "", t)
Call(s, n) == Instruction("Call", s, n)
Return == Plain("Return")

\* Function (codegen.rs): a compiled function.
Function(name, param_count, instructions) ==
    [name |-> name, param_count |-> param_count, instructions |-> instructions]

(***************************************************************************)
(* Node (ast.rs).  Box<Node> is the node itself, Option<Box<Node>> a       *)
(* sequence of length 0 (None) or 1 (Some), Vec<Node> a sequence.  The     *)
(* Location fields are left out: generate_node ignores them in every arm.  *)
(***************************************************************************)
None == << >>
Some(x) == << x >>

Program(statements) == [kind |-> "Program", statements |-> statements]
ExpressionStmt(expr) == [kind |-> "ExpressionStmt", expr |-> expr]
BlockStmt(statements) == [kind |-> "BlockStmt", statements |-> statements]
IfStmt(condition, then_branch, else_branch) ==
    [kind |-> "IfStmt", condition |-> condition, then_branch |-> then_branch,
     else_branch |-> else_branch]
WhileStmt(condition, body) ==
    [kind |-> "WhileStmt", condition |-> condition, body |-> body]
ForStmt(init, condition, increment, body) ==
    [kind |-> "ForStmt", init |-> init, opt_condition |-> condition,
     increment |-> increment, body |-> body]
ForeachStmt(array, value_var, body) ==
    [kind |-> "ForeachStmt", array |-> array, value_var |-> value_var, body |-> body]
ReturnStmt(value) == [kind |-> "ReturnStmt", opt_value |-> value]
EchoStmt(expressions) == [kind |-> "EchoStmt", expressions |-> expressions]
VarDecl(name, initializer) ==
    [kind |-> "VarDecl", name |-> name, initializer |-> initializer]
FunctionDecl(name, params, body) ==
    [kind |-> "FunctionDecl", name |-> name, params |-> params, body |-> body]
BinaryExpr(op, left, right) ==
    [kind |-> "BinaryExpr", op |-> op, left |-> left, right |-> right]
UnaryExpr(op, expr) == [kind |-> "UnaryExpr", op |-> op, expr |-> expr]
Variable(name) == [kind |-> "Variable", name |-> name]
FunctionCall(name, args) == [kind |-> "FunctionCall", name |-> name, args |-> args]
IntLiteral(v) == [kind |-> "IntLiteral", value |-> v]
FloatLiteral(v) == [kind |-> "FloatLiteral", value |-> v]
StringLiteral(s) == [kind |-> "StringLiteral", svalue |-> s]
BooleanLiteral(b) == [kind |-> "BooleanLiteral", bvalue |-> b]
NullLiteral == [kind |-> "NullLiteral"]
\* ArrayLiteral holds (key, value) pairs, the key optional.
ArrayElement(key, item) == [key |-> key, item |-> item]
ArrayLiteral(elements) == [kind |-> "ArrayLiteral", elements |-> elements]

\* BinaryOp (ast.rs) other than Assign: each names the instruction it lowers to.
BinaryOps ==
    {"Add", "Subtract", "Multiply", "Divide", "Modulo", "Equal", "NotEqual",
     "Less", "LessEqual", "Greater", "GreaterEqual", "LogicalAnd", "LogicalOr",
     "Concat", "ArrayAccess"}
UnaryOps == {"Negate", "LogicalNot"}

StatementKinds ==
    {"ExpressionStmt", "BlockStmt", "IfStmt", "WhileStmt", "ForStmt", "EchoStmt",
     "VarDecl"}
ExpressionKinds ==
    {"BinaryExpr", "UnaryExpr", "Variable", "FunctionCall", "IntLiteral",
     "FloatLiteral", "StringLiteral", "BooleanLiteral", "NullLiteral",
     "ArrayLiteral"}

(***************************************************************************)
(* The syntax trees handed to generate.  Any Node is accepted (generate    *)
(* takes &Node), so expressions and statements are roots too.  The family  *)
(* is closed under taking the sub-statement of a compound statement.       *)
(***************************************************************************)
VarA == Variable("a")
One == IntLiteral(1)
AssignA == BinaryExpr("Assign", VarA, One)
\* An assignment whose left side is a function call, and one whose left side
\* is a literal; the right side of the first would emit instructions.
BadAssignCall == BinaryExpr("Assign", FunctionCall("f", << >>), One)
BadAssignLit == BinaryExpr("Assign", One, VarA)
LessA == BinaryExpr("Less", VarA, One)

Atoms ==
    {One, VarA, FloatLiteral(2), StringLiteral("s"), BooleanLiteral(TRUE),
     BooleanLiteral(FALSE), NullLiteral}

Exprs ==
    Atoms
    \cup {BinaryExpr(op, VarA, One) : op \in BinaryOps}
    \cup {UnaryExpr(op, VarA) : op \in UnaryOps}
    \cup {AssignA, BadAssignCall, BadAssignLit,
          BinaryExpr("Assign", Variable("b"), AssignA),
          BinaryExpr("Add", AssignA, BinaryExpr("Multiply", VarA, One)),
          BinaryExpr("Add", One, BadAssignCall),
          UnaryExpr("Negate", UnaryExpr("LogicalNot", One)),
          FunctionCall("f", << >>),
          FunctionCall("f", << VarA >>),
          FunctionCall("g", << VarA, One >>),
          FunctionCall("g", << One, BadAssignLit, VarA >>),
          ArrayLiteral(<< >>),
          ArrayLiteral(<< ArrayElement(None, One) >>),
          ArrayLiteral(<< ArrayElement(Some(One), VarA), ArrayElement(None, One) >>),
          ArrayLiteral(<< ArrayElement(Some(BadAssignLit), VarA) >>)}

\* Statements without a sub-statement.
SimpleStmts ==
    {ExpressionStmt(AssignA),
     ExpressionStmt(FunctionCall("f", << VarA >>)),
     ExpressionStmt(BadAssignCall),
     BlockStmt(<< >>),
     EchoStmt(<< VarA >>),
     ReturnStmt(None),
     ReturnStmt(Some(VarA)),
     VarDecl("a", Some(One)),
     ForeachStmt(VarA, "v", BlockStmt(<< >>)),
     IfStmt(BadAssignLit, BlockStmt(<< >>), None)}

\* The compound statements that have s as a sub-statement.
Wrap(s) ==
    {IfStmt(LessA, s, None),
     IfStmt(LessA, s, Some(EchoStmt(<< One >>))),
     IfStmt(LessA, EchoStmt(<< One >>), Some(s)),
     WhileStmt(LessA, s),
     ForStmt(Some(ExpressionStmt(AssignA)), Some(LessA), Some(AssignA), s),
     ForStmt(None, None, None, s),
     FunctionDecl("f", << "p" >>, s),
     FunctionDecl("g", << >>, s),
     BlockStmt(<< s >>),
     BlockStmt(<< s, EchoStmt(<< VarA >>) >>),
     BlockStmt(<< ExpressionStmt(AssignA), s >>)}

RECURSIVE Stmts(_)
Stmts(d) ==
    IF d = 0 THEN SimpleStmts
    ELSE LET S == Stmts(d - 1) IN S \cup UNION {Wrap(s) : s \in S}

\* Statements that reach the remaining shapes of each arm.
OtherStmts ==
    {ExpressionStmt(e) : e \in Exprs}
    \cup {EchoStmt(<< >>), EchoStmt(<< StringLiteral("s"), VarA >>),
          EchoStmt(<< One, BadAssignCall, VarA >>),
          ReturnStmt(Some(BadAssignCall)),
          VarDecl("a", None), VarDecl("b", Some(AssignA)),
          VarDecl("a", Some(BadAssignLit)),
          ForeachStmt(BadAssignCall, "v", BlockStmt(<< >>)),
          ForeachStmt(FunctionCall("f", << >>), "v", EchoStmt(<< VarA >>)),
          WhileStmt(BadAssignCall, BlockStmt(<< >>)),
          ForStmt(Some(VarDecl("a", Some(One))), None, Some(AssignA), BlockStmt(<< >>)),
          ForStmt(None, Some(LessA), None, EchoStmt(<< VarA >>)),
          ForStmt(Some(AssignA), Some(BadAssignLit), None, BlockStmt(<< >>)),
          FunctionDecl("f", << "p", "q" >>, BlockStmt(<< ForeachStmt(VarA, "v", BlockStmt(<< >>)) >>)),
          BlockStmt(<< FunctionDecl("f", << "p" >>,
                                    FunctionDecl("g", << >>,
                                                 IfStmt(LessA, ReturnStmt(None), None))),
                       EchoStmt(<< VarA >>) >>)}

Programs ==
    {Program(<< >>)}
    \cup {Program(<< s >>) : s \in SimpleStmts}
    \cup {Program(<< WhileStmt(LessA, s),
                     FunctionDecl("f", << >>, IfStmt(LessA, s, Some(s))) >>) : s \in SimpleStmts}

Trees == Exprs \cup Stmts(MaxDepth) \cup OtherStmts \cup Programs

(***************************************************************************)
(* State.                                                                  *)
(*   functions, current_instructions: the fields of CodeGenerator.         *)
(*   stack: the active generate_node calls, innermost last.                *)
(*   calls: what the caller of generate has seen, one entry per call: the  *)
(*          node passed, whether the generator was in its new() state, the *)
(*          Result returned and the table read through get_functions.      *)
(***************************************************************************)
VARIABLES functions, current_instructions, stack, calls

(***************************************************************************)
(* State of the rest of the pipeline.                                      *)
(*   asm_code, string_literals, label_counter, variables, var_counter:     *)
(*          the fields of AsmGenerator (src/src/asmgen.rs).                *)
(*   lowering: the running call of AsmGenerator::generate, its argument    *)
(*          and the position of its loop.                                  *)
(*   texts: what the caller of AsmGenerator::generate has seen, one entry  *)
(*          per call.                                                      *)
(*   machine: the processor running an emitted text.                       *)
(*   compile: the running call of compile_file (src/src/lib.rs).           *)
(***************************************************************************)
VARIABLES asm_code, string_literals, label_counter, variables, var_counter,
          lowering, texts, machine, compile
asm_vars == << asm_code, string_literals, label_counter, variables, var_counter,
               lowering, texts >>
codegen_vars == << functions, current_instructions, stack, calls >>
beyond_codegen == << asm_vars, machine, compile >>
vars == << codegen_vars, asm_vars, machine, compile >>

\* HashMap<String, Function>: a function from the names present to Functions.
EmptyMap == [k \in {} |-> Function("", 0, << >>)]
insert(map, key, value) ==
    [k \in DOMAIN map \cup {key} |-> IF k = key THEN value ELSE map[k]]

\* Result<Vec<Instruction>> as the caller sees it; Pending while generate runs.
Pending == [tag |-> "Pending", instructions |-> << >>, message |-> ""]
Ok(instrs) == [tag |-> "Ok", instructions |-> instrs, message |-> ""]
Err(msg) == [tag |-> "Err", instructions |-> << >>, message |-> msg]

\* One active call of generate_node: its argument, the position reached in
\* its arm, and the arm's locals (a, b: the saved indices or the loop index;
\* saved: saved_instructions of the FunctionDecl arm).
Frame(node) == [node |-> node, pc |-> 0, a |-> 0, b |-> 0, saved |-> << >>]

top == stack[Len(stack)]
Running == stack # << >>
InArm(kind) == Running /\ top.node.kind = kind
LastCall == calls[Len(calls)]
Idle == stack = << >> /\ (IF calls = << >> THEN TRUE ELSE LastCall.result.tag # "Pending")

\* self.generate_node(child)?: the caller moves on to frame f and the callee starts.
Enter(f, child) == SubSeq(stack, 1, Len(stack) - 1) \o << f, Frame(child) >>
\* Ok(()) at the end of generate_node: the innermost call returns.
Leave == SubSeq(stack, 1, Len(stack) - 1)
\* The frame stays active at a new position.
Stay(f) == SubSeq(stack, 1, Len(stack) - 1) \o << f >>

\* current_instructions[index] = instr, for a 0-based index.
SetAt(instrs, index, instr) == [instrs EXCEPT ![index + 1] = instr]

\* The entry of the running call once generate has returned r.
Returned(r, fns) == [calls EXCEPT ![Len(calls)].result = r, ![Len(calls)].functions = fns]

\* return Err(CodeGenError { message }) followed by the ? of every caller up
\* to generate: no arm runs any code on the way out.
Fail(msg) ==
    /\ stack' = << >>
    /\ calls' = Returned(Err(msg), functions)
    /\ UNCHANGED << functions, current_instructions >>

\* AsmGenerator::new(): the fields of a new lowering generator.
NoOffsets == [k \in {} |-> 0]
NotLowering == [state |-> "idle", instructions |-> << >>, i |-> 0, marks |-> << >>]

\* The processor before a text is loaded: status, the index of the next line,
\* the registers, the operands of the last comparison, memory (a cell holds
\* a quadword or a byte), the print events so far, and what the processor
\* held when it entered the lines of the instruction it is in (at).
Registers == {"rax", "rbx", "rcx", "rdx", "r8", "r9", "r10", "rsp", "rbp"}
NoSnapshot == [k |-> -1, rsp |-> 0, out |-> << >>, top |-> 0, second |-> 0]
Off ==
    [status |-> "off", ip |-> 0, reg |-> [r \in Registers |-> 0],
     l |-> 0, r |-> 0, mem |-> [a \in {} |-> [w |-> 8, v |-> 0]], out |-> << >>,
     at |-> NoSnapshot]

\* compile_file before it is called: the file it was given, the phases that
\* have run with what each returned, the tokens and the tree handed on, and
\* the Result the caller gets.
NoFile == [readable |-> FALSE, source |-> << >>]
NoError == [variant |-> "", message |-> "", detail |-> ""]
NoResult == [tag |-> "Pending", instructions |-> << >>, error |-> NoError]
NotCompiling ==
    [pc |-> "idle", file |-> NoFile, ran |-> << >>, tokens |-> << >>,
     ast |-> << >>, result |-> NoResult]

Init ==
    /\ functions = EmptyMap
    /\ current_instructions = << >>
    /\ stack = << >>
    /\ calls = << >>
    /\ asm_code = << >>
    /\ string_literals = << >>
    /\ label_counter = 0
    /\ variables = NoOffsets
    /\ var_counter = 0
    /\ lowering = NotLowering
    /\ texts = << >>
    /\ machine = Off
    /\ compile = NotCompiling

\* CodeGenerator::new(): the caller replaces its generator by a new one.
New ==
    /\ Idle
    /\ calls # << >>
    /\ functions # EmptyMap \/ current_instructions # << >>
    /\ functions' = EmptyMap
    /\ current_instructions' = << >>
    /\ UNCHANGED << stack, calls >>
    /\ UNCHANGED beyond_codegen

\* A generate that does not clear the buffer.
clear_nothing(instrs) == instrs

\* self.current_instructions.clear() at the start of generate.
clear(instrs) == << >>

\* generate, up to its call of generate_node.
generate(node) ==
    /\ Idle
    /\ current_instructions' = clear(current_instructions)
    /\ stack' = << Frame(node) >>
    /\ calls' = Append(calls, [node |-> node,
                               fresh |-> functions = EmptyMap /\ current_instructions = << >>,
                               result |-> Pending,
                               functions |-> EmptyMap])
    /\ UNCHANGED functions
    /\ UNCHANGED beyond_codegen

\* generate, after generate_node returned Ok: Ok(self.current_instructions.clone()).
generate_return ==
    /\ stack = << >>
    /\ calls # << >>
    /\ LastCall.result.tag = "Pending"
    /\ calls' = Returned(Ok(current_instructions), functions)
    /\ UNCHANGED << functions, current_instructions, stack >>
    /\ UNCHANGED beyond_codegen

(***************************************************************************)
(* generate_node, one action per arm of its match.  A step runs the arm's  *)
(* code from the position in the frame up to the next recursive call or to *)
(* the end of the arm.                                                     *)
(***************************************************************************)
len == Len(current_instructions)

\* Node::Program(statements) and Node::BlockStmt(statements, _):
\* for stmt in statements { self.generate_node(stmt)?; }   (pc counts the
\* statements done).
StatementList ==
    /\ IF top.pc < Len(top.node.statements)
       THEN stack' = Enter([top EXCEPT !.pc = @ + 1], top.node.statements[top.pc + 1])
       ELSE stack' = Leave
    /\ UNCHANGED << functions, current_instructions, calls >>
    /\ UNCHANGED beyond_codegen

generate_node_Program == InArm("Program") /\ StatementList

generate_node_BlockStmt == InArm("BlockStmt") /\ StatementList

generate_node_ExpressionStmt ==
    /\ InArm("ExpressionStmt")
    /\ \/ /\ top.pc = 0
          /\ stack' = Enter([top EXCEPT !.pc = 1], top.node.expr)
          /\ UNCHANGED current_instructions
       \/ /\ top.pc = 1
          /\ current_instructions' = Append(current_instructions, Pop)
          /\ stack' = Leave
    /\ UNCHANGED << functions, calls >>
    /\ UNCHANGED beyond_codegen

\* An after_if that points past the label it is about to place.
after_if_past_label(instrs) == Len(instrs) + 1

\* The index the if-without-else arm patches into its JumpIfFalse and labels.
after_if(instrs) == Len(instrs)

\* An else_start taken before the jump over the else branch was pushed.
else_start_before_jump(instrs) == Len(instrs) - 1

\* The indices the if-else arm patches into its two jumps and labels.
else_start(instrs) == Len(instrs)
after_else(instrs) == Len(instrs)

\* top.a is jump_to_else, top.b is jump_over_else.
generate_node_IfStmt ==
    /\ InArm("IfStmt")
    /\ \/ /\ top.pc = 0
          /\ stack' = Enter([top EXCEPT !.pc = 1], top.node.condition)
          /\ UNCHANGED current_instructions
       \/ /\ top.pc = 1
          /\ current_instructions' = Append(current_instructions, JumpIfFalse(0))
          /\ stack' = Enter([top EXCEPT !.pc = 2, !.a = len], top.node.then_branch)
       \/ /\ top.pc = 2
          /\ top.node.else_branch # None
          /\ LET jump_over_else == len
                 pushed == Append(current_instructions, Jump(0))
                 target == else_start(pushed)
                 patched == SetAt(pushed, top.a, JumpIfFalse(target))
             IN /\ current_instructions' = Append(patched, Label(target))
                /\ stack' = Enter([top EXCEPT !.pc = 3, !.b = jump_over_else],
                                  top.node.else_branch[1])
       \/ /\ top.pc = 2
          /\ top.node.else_branch = None
          /\ LET target == after_if(current_instructions)
                 patched == SetAt(current_instructions, top.a, JumpIfFalse(target))
             IN current_instructions' = Append(patched, Label(target))
          /\ stack' = Leave
       \/ /\ top.pc = 3
          /\ LET target == after_else(current_instructions)
                 patched == SetAt(current_instructions, top.b, Jump(target))
             IN current_instructions' = Append(patched, Label(target))
          /\ stack' = Leave
    /\ UNCHANGED << functions, calls >>
    /\ UNCHANGED beyond_codegen

\* An after_loop taken before the back-jump was pushed.
after_loop_before_jump(instrs) == Len(instrs) - 1

\* The index the while arm patches into its JumpIfFalse and labels.
after_loop(instrs) == Len(instrs)

\* top.a is loop_start, top.b is jump_out.
generate_node_WhileStmt ==
    /\ InArm("WhileStmt")
    /\ \/ /\ top.pc = 0
          /\ current_instructions' = Append(current_instructions, Label(len))
          /\ stack' = Enter([top EXCEPT !.pc = 1, !.a = len], top.node.condition)
       \/ /\ top.pc = 1
          /\ current_instructions' = Append(current_instructions, JumpIfFalse(0))
          /\ stack' = Enter([top EXCEPT !.pc = 2, !.b = len], top.node.body)
       \/ /\ top.pc = 2
          /\ LET pushed == Append(current_instructions, Jump(top.a))
                 target == after_loop(pushed)
                 patched == SetAt(pushed, top.b, JumpIfFalse(target))
             IN current_instructions' = Append(patched, Label(target))
          /\ stack' = Leave
    /\ UNCHANGED << functions, calls >>
    /\ UNCHANGED beyond_codegen

\* An after_loop of the for arm taken before the back-jump was pushed.
for_after_loop_at_jump(instrs) == Len(instrs) - 1

\* The end of the for arm, from "Jump back to the start of the loop" on.
for_after_loop(instrs) == Len(instrs)
ForClose(instrs, loop_start, jump_out) ==
    LET pushed == Append(instrs, Jump(loop_start))
        target == for_after_loop(pushed)
        patched == SetAt(pushed, jump_out, JumpIfFalse(target))
    IN Append(patched, Label(target))

\* top.a is loop_start, top.b is jump_out.
generate_node_ForStmt ==
    /\ InArm("ForStmt")
    /\ \/ /\ top.pc = 0
          /\ top.node.init # None
          /\ stack' = Enter([top EXCEPT !.pc = 1], top.node.init[1])
          /\ UNCHANGED current_instructions
       \/ /\ \/ top.pc = 0 /\ top.node.init = None
             \/ top.pc = 1
          /\ IF top.node.opt_condition # None
             THEN /\ current_instructions' = Append(current_instructions, Label(len))
                  /\ stack' = Enter([top EXCEPT !.pc = 2, !.a = len],
                                    top.node.opt_condition[1])
             ELSE /\ current_instructions' =
                        current_instructions \o
                            << Label(len), PushBool(TRUE), JumpIfFalse(0) >>
                  /\ stack' = Enter([top EXCEPT !.pc = 3, !.a = len, !.b = len + 2],
                                    top.node.body)
       \/ /\ top.pc = 2
          /\ current_instructions' = Append(current_instructions, JumpIfFalse(0))
          /\ stack' = Enter([top EXCEPT !.pc = 3, !.b = len], top.node.body)
       \/ /\ top.pc = 3
          /\ top.node.increment # None
          /\ stack' = Enter([top EXCEPT !.pc = 4], top.node.increment[1])
          /\ UNCHANGED current_instructions
       \/ /\ top.pc = 3
          /\ top.node.increment = None
          /\ current_instructions' = ForClose(current_instructions, top.a, top.b)
          /\ stack' = Leave
       \/ /\ top.pc = 4
          /\ current_instructions' =
                ForClose(Append(current_instructions, Pop), top.a, top.b)
          /\ stack' = Leave
    /\ UNCHANGED << functions, calls >>
    /\ UNCHANGED beyond_codegen

ForeachMessage == "Foreach loops are not fully implemented yet"

\* A foreach arm that fails before it generates the iterated expression.
generate_node_ForeachStmt_early ==
    /\ InArm("ForeachStmt")
    /\ Fail(ForeachMessage)
    /\ UNCHANGED beyond_codegen

generate_node_ForeachStmt ==
    /\ InArm("ForeachStmt")
    /\ \/ /\ top.pc = 0
          /\ stack' = Enter([top EXCEPT !.pc = 1], top.node.array)
          /\ UNCHANGED << functions, current_instructions, calls >>
       \/ /\ top.pc = 1
          /\ Fail(ForeachMessage)
    /\ UNCHANGED beyond_codegen

generate_node_ReturnStmt ==
    /\ InArm("ReturnStmt")
    /\ \/ /\ top.pc = 0
          /\ top.node.opt_value # None
          /\ stack' = Enter([top EXCEPT !.pc = 1], top.node.opt_value[1])
          /\ UNCHANGED current_instructions
       \/ /\ top.pc = 0
          /\ top.node.opt_value = None
          /\ current_instructions' = current_instructions \o << PushNull, Return >>
          /\ stack' = Leave
       \/ /\ top.pc = 1
          /\ current_instructions' = Append(current_instructions, Return)
          /\ stack' = Leave
    /\ UNCHANGED << functions, calls >>
    /\ UNCHANGED beyond_codegen

\* top.a is the loop index i; expr_count is Len(expressions).
generate_node_EchoStmt ==
    /\ InArm("EchoStmt")
    /\ LET expr_count == Len(top.node.expressions)
       IN \/ /\ top.pc = 0
             /\ IF top.a < expr_count
                THEN stack' = Enter([top EXCEPT !.pc = 1], top.node.expressions[top.a + 1])
                ELSE stack' = Leave
             /\ UNCHANGED current_instructions
          \/ /\ top.pc = 1
             /\ current_instructions' =
                   Append(current_instructions,
                          IF top.a = expr_count - 1 THEN Plain("EchoLine") ELSE Plain("Echo"))
             /\ stack' = Stay([top EXCEPT !.pc = 0, !.a = @ + 1])
    /\ UNCHANGED << functions, calls >>
    /\ UNCHANGED beyond_codegen

generate_node_VarDecl ==
    /\ InArm("VarDecl")
    /\ \/ /\ top.pc = 0
          /\ top.node.initializer # None
          /\ stack' = Enter([top EXCEPT !.pc = 1], top.node.initializer[1])
          /\ UNCHANGED current_instructions
       \/ /\ top.pc = 0
          /\ top.node.initializer = None
          /\ current_instructions' =
                current_instructions \o << PushNull, StoreVar(top.node.name) >>
          /\ stack' = Leave
       \/ /\ top.pc = 1
          /\ current_instructions' = Append(current_instructions, StoreVar(top.node.name))
          /\ stack' = Leave
    /\ UNCHANGED << functions, calls >>
    /\ UNCHANGED beyond_codegen

\* A check that only looks at the last instruction of the body.
last_is_return(instrs) == instrs # << >> /\ instrs[Len(instrs)] = Return

\* self.current_instructions.iter().any(|i| matches!(i, Instruction::Return))
any_return(instrs) == \E i \in 1..Len(instrs) : instrs[i] = Return

\* A restore that keeps the instructions of the body behind the saved ones.
restored_with_body(saved, instrs) == saved \o instrs

\* self.current_instructions = saved_instructions at the end of the arm.
restored(saved, instrs) == saved

generate_node_FunctionDecl ==
    /\ InArm("FunctionDecl")
    /\ \/ /\ top.pc = 0
          /\ current_instructions' = << >>
          /\ stack' = Enter([top EXCEPT !.pc = 1, !.saved = current_instructions],
                            top.node.body)
          /\ UNCHANGED functions
       \/ /\ top.pc = 1
          /\ LET body == IF any_return(current_instructions)
                         THEN current_instructions
                         ELSE current_instructions \o << PushNull, Return >>
                 function == Function(top.node.name, Len(top.node.params), body)
             IN functions' = insert(functions, top.node.name, function)
          /\ current_instructions' = restored(top.saved, current_instructions)
          /\ stack' = Leave
    /\ UNCHANGED calls
    /\ UNCHANGED beyond_codegen

AssignMessage == "Left-hand side of assignment must be a variable"

\* An assignment arm that generates the right-hand side before it looks at
\* the left operand.
generate_node_Assign_late ==
    /\ InArm("BinaryExpr")
    /\ top.node.op = "Assign"
    /\ \/ /\ top.pc = 0
          /\ stack' = Enter([top EXCEPT !.pc = 1], top.node.right)
          /\ UNCHANGED << functions, current_instructions, calls >>
       \/ /\ top.pc = 1
          /\ top.node.left.kind # "Variable"
          /\ Fail(AssignMessage)
       \/ /\ top.pc = 1
          /\ top.node.left.kind = "Variable"
          /\ current_instructions' =
                current_instructions \o
                    << StoreVar(top.node.left.name), LoadVar(top.node.left.name) >>
          /\ stack' = Leave
          /\ UNCHANGED << functions, calls >>
    /\ UNCHANGED beyond_codegen

\* An assignment that stores the value and does not load it again.
store_only(name) == << StoreVar(name) >>

\* The two pushes after the right-hand side: StoreVar(name), LoadVar(name).
store_and_reload(name) == << StoreVar(name), LoadVar(name) >>

\* Node::BinaryExpr with op BinaryOp::Assign.
generate_node_Assign ==
    /\ InArm("BinaryExpr")
    /\ top.node.op = "Assign"
    /\ \/ /\ top.pc = 0
          /\ top.node.left.kind = "Variable"
          /\ stack' = Enter([top EXCEPT !.pc = 1], top.node.right)
          /\ UNCHANGED << functions, current_instructions, calls >>
       \/ /\ top.pc = 0
          /\ top.node.left.kind # "Variable"
          /\ Fail(AssignMessage)
       \/ /\ top.pc = 1
          /\ current_instructions' =
                current_instructions \o store_and_reload(top.node.left.name)
          /\ stack' = Leave
          /\ UNCHANGED << functions, calls >>
    /\ UNCHANGED beyond_codegen

\* An operator match without the arm that turns ArrayAccess into ArrayGet.
BinaryInstruction_by_name(op) == Plain(op)

\* The instruction of a binary operator other than Assign.
BinaryInstruction(op) == IF op = "ArrayAccess" THEN Plain("ArrayGet") ELSE Plain(op)

\* Node::BinaryExpr with any other op.
generate_node_BinaryExpr ==
    /\ InArm("BinaryExpr")
    /\ top.node.op # "Assign"
    /\ \/ /\ top.pc = 0
          /\ stack' = Enter([top EXCEPT !.pc = 1], top.node.left)
          /\ UNCHANGED current_instructions
       \/ /\ top.pc = 1
          /\ stack' = Enter([top EXCEPT !.pc = 2], top.node.right)
          /\ UNCHANGED current_instructions
       \/ /\ top.pc = 2
          /\ current_instructions' =
                Append(current_instructions, BinaryInstruction(top.node.op))
          /\ stack' = Leave
    /\ UNCHANGED << functions, calls >>
    /\ UNCHANGED beyond_codegen

generate_node_UnaryExpr ==
    /\ InArm("UnaryExpr")
    /\ \/ /\ top.pc = 0
          /\ stack' = Enter([top EXCEPT !.pc = 1], top.node.expr)
          /\ UNCHANGED current_instructions
       \/ /\ top.pc = 1
          /\ current_instructions' = Append(current_instructions, Plain(top.node.op))
          /\ stack' = Leave
    /\ UNCHANGED << functions, calls >>
    /\ UNCHANGED beyond_codegen

generate_node_Variable ==
    /\ InArm("Variable")
    /\ current_instructions' = Append(current_instructions, LoadVar(top.node.name))
    /\ stack' = Leave
    /\ UNCHANGED << functions, calls >>
    /\ UNCHANGED beyond_codegen

\* A loop over the arguments from the first to the last.
next_arg_forward(n, done) == done + 1

\* args.iter().rev(): the 1-based index of the argument generated when done
\* of the n arguments have been generated.
next_arg(n, done) == n - done

\* for arg in args.iter().rev(): top.a counts the arguments done.
generate_node_FunctionCall ==
    /\ InArm("FunctionCall")
    /\ LET n == Len(top.node.args)
       IN IF top.a < n
          THEN /\ stack' = Enter([top EXCEPT !.a = @ + 1],
                                 top.node.args[next_arg(n, top.a)])
               /\ UNCHANGED current_instructions
          ELSE /\ current_instructions' =
                     Append(current_instructions, Call(top.node.name, n))
               /\ stack' = Leave
    /\ UNCHANGED << functions, calls >>
    /\ UNCHANGED beyond_codegen

\* The five literal arms other than ArrayLiteral.
LiteralInstruction(node) ==
    CASE node.kind = "IntLiteral" -> PushInt(node.value)
      [] node.kind = "FloatLiteral" -> PushFloat(node.value)
      [] node.kind = "StringLiteral" -> PushString(node.svalue)
      [] node.kind = "BooleanLiteral" -> PushBool(node.bvalue)
      [] node.kind = "NullLiteral" -> PushNull

generate_node_Literal ==
    /\ Running
    /\ top.node.kind \in {"IntLiteral", "FloatLiteral", "StringLiteral",
                          "BooleanLiteral", "NullLiteral"}
    /\ current_instructions' = Append(current_instructions, LiteralInstruction(top.node))
    /\ stack' = Leave
    /\ UNCHANGED << functions, calls >>
    /\ UNCHANGED beyond_codegen

\* top.a counts the elements done.
generate_node_ArrayLiteral ==
    /\ InArm("ArrayLiteral")
    /\ \/ /\ top.pc = 0
          /\ current_instructions' = Append(current_instructions, Plain("CreateArray"))
          /\ stack' = Stay([top EXCEPT !.pc = 1])
       \/ /\ top.pc = 1
          /\ IF top.a < Len(top.node.elements)
             THEN stack' = Enter([top EXCEPT !.pc = 2], top.node.elements[top.a + 1].item)
             ELSE stack' = Leave
          /\ UNCHANGED current_instructions
       \/ /\ top.pc = 2
          /\ top.node.elements[top.a + 1].key # None
          /\ stack' = Enter([top EXCEPT !.pc = 3], top.node.elements[top.a + 1].key[1])
          /\ UNCHANGED current_instructions
       \/ /\ top.pc = 2
          /\ top.node.elements[top.a + 1].key = None
          /\ current_instructions' = Append(current_instructions, Plain("ArrayPush"))
          /\ stack' = Stay([top EXCEPT !.pc = 1, !.a = @ + 1])
       \/ /\ top.pc = 3
          /\ current_instructions' = Append(current_instructions, Plain("ArraySet"))
          /\ stack' = Stay([top EXCEPT !.pc = 1, !.a = @ + 1])
    /\ UNCHANGED << functions, calls >>
    /\ UNCHANGED beyond_codegen

generate_node ==
    \/ generate_node_Program
    \/ generate_node_BlockStmt
    \/ generate_node_ExpressionStmt
    \/ generate_node_IfStmt
    \/ generate_node_WhileStmt
    \/ generate_node_ForStmt
    \/ generate_node_ForeachStmt
    \/ generate_node_ReturnStmt
    \/ generate_node_EchoStmt
    \/ generate_node_VarDecl
    \/ generate_node_FunctionDecl
    \/ generate_node_Assign
    \/ generate_node_BinaryExpr
    \/ generate_node_UnaryExpr
    \/ generate_node_Variable
    \/ generate_node_FunctionCall
    \/ generate_node_Literal
    \/ generate_node_ArrayLiteral

\* One call of generate on a new generator, for every tree of the family.
Next ==
    \/ calls = << >> /\ \E node \in Trees : generate(node)
    \/ generate_node
    \/ generate_return

Spec == Init /\ [][Next]_vars

(***************************************************************************)
(* Repeated use: up to MaxCalls calls of generate in a row, on the same    *)
(* generator or on a new one, over a small family of trees.                *)
(***************************************************************************)
RepeatTrees ==
    {AssignA,
     BadAssignCall,
     IfStmt(LessA, EchoStmt(<< VarA >>), None),
     FunctionDecl("f", << "p" >>, ReturnStmt(Some(VarA))),
     FunctionDecl("f", << >>, BlockStmt(<< >>)),
     Program(<< FunctionDecl("g", << >>, WhileStmt(LessA, BlockStmt(<< >>))),
                ExpressionStmt(FunctionCall("g", << >>)) >>),
     FunctionDecl("g", << >>, ExpressionStmt(BadAssignLit)),
     Program(<< EchoStmt(<< One >>), ForeachStmt(VarA, "v", BlockStmt(<< >>)) >>),
     ForStmt(Some(VarDecl("a", Some(UnaryExpr("Negate", One)))), None, Some(AssignA),
             ExpressionStmt(ArrayLiteral(<< ArrayElement(None, One) >>)))}

NextRepeat ==
    \/ Idle /\ Len(calls) < MaxCalls /\ \E node \in RepeatTrees : generate(node)
    \/ generate_node
    \/ generate_return
    \/ New

SpecRepeat == Init /\ [][NextRepeat]_vars

(***************************************************************************)
(* Stack effect of one instruction in the native lowering                  *)
(* (AsmGenerator::process_instruction): values pushed minus values popped. *)
(* Call and Return have no lowering of their own and fall under the        *)
(* comment-only arm.                                                       *)
(***************************************************************************)
StackEffect(instr) ==
    CASE instr.op \in {"PushInt", "PushFloat", "PushString", "PushBool", "PushNull",
                       "CreateArray", "LoadVar"} -> 1
      [] instr.op \in {"Pop", "Echo", "EchoLine", "JumpIfFalse", "JumpIfTrue"} -> -1
      [] instr.op \in {"Add", "Subtract", "Multiply", "Divide", "Modulo", "Equal",
                       "NotEqual", "Less", "LessEqual", "Greater", "GreaterEqual",
                       "LogicalAnd", "LogicalOr", "Concat", "ArrayGet", "ArrayPush"} -> -1
      [] instr.op = "ArraySet" -> -2
      [] instr.op \in {"Negate", "LogicalNot", "StoreVar", "Jump", "Label"} -> 0
      [] OTHER -> 0

\* The indices control can reach after the instruction at index i: the native
\* branch of a jump leads to the label of its target, everything else falls
\* through.
Successors(instrs, i) ==
    LET instr == instrs[i + 1]
    IN CASE instr.op = "Jump" -> {instr.n}
         [] instr.op \in {"JumpIfFalse", "JumpIfTrue"} -> {i + 1, instr.n}
         [] OTHER -> {i + 1}

\* The pairs (index, depth) on some execution path of instrs entered at index
\* 0 with depth 0; depths beyond MaxStack are recorded and not followed.
RECURSIVE Reach(_, _, _)
Reach(instrs, seen, frontier) ==
    IF frontier = {} THEN seen
    ELSE LET next ==
                 UNION {{<< j, p[2] + StackEffect(instrs[p[1] + 1]) >> :
                             j \in Successors(instrs, p[1])} :
                        p \in {q \in frontier : /\ q[1] < Len(instrs)
                                                /\ q[2] <= MaxStack
                                                /\ q[2] >= -MaxStack}}
         IN Reach(instrs, seen \cup frontier, next \ (seen \cup frontier))

\* Every path through instrs ends with net stack effect k.
Balanced(instrs, k) ==
    \A p \in Reach(instrs, {}, {<< 0, 0 >>}) :
        /\ p[2] <= MaxStack
        /\ p[2] >= -MaxStack
        /\ p[1] >= Len(instrs) => p[2] = k

(***************************************************************************)
(* The assembly text (src/src/asmgen.rs).  asm_code is kept as the sequence *)
(* of the lines written to it; a line is an operation with a destination   *)
(* and a source operand.  The comment that trails an instruction on its    *)
(* line is left out; a line that is only a comment is kept.                *)
(*   Reg(r)     the register r                                              *)
(*   Imm(n)     the number n                                                *)
(*   Mem(r, n)  the memory at [r + n]; [rbp - 8] is Mem("rbp", -8)          *)
(*   Name(s)    the symbol s                                                *)
(*   Sym(s, n)  the symbol format!("{s}_{n}")                               *)
(***************************************************************************)
Operand(k, r, n) == [k |-> k, r |-> r, n |-> n]
NoOperand == Operand("", "", 0)
Reg(r) == Operand("reg", r, 0)
Imm(n) == Operand("imm", "", n)
Mem(r, n) == Operand("mem", r, n)
Name(s) == Operand("name", s, 0)
Sym(s, n) == Operand("sym", s, n)
\* The text of an instruction: its Display or Debug form inside a comment.
Shown(instr) == Operand(instr.op, instr.name, instr.n)
\* A string between the quotes of a .string directive: written as it is, or
\* after s.replace("\"", "\\\"").
Raw(s) == Operand("raw", s, 0)
Escaped(s) == Operand("escaped", s, 0)

Line(op, d, s) == [op |-> op, d |-> d, s |-> s]
Ins0(op) == Line(op, NoOperand, NoOperand)
Ins1(op, d) == Line(op, d, NoOperand)
Ins2(op, d, s) == Line(op, d, s)
LabelDef(sym) == Line(":", sym, NoOperand)
Comment(text) == Line("#", Name(text), NoOperand)
CommentOf(text, instr) == Line("#", Name(text), Shown(instr))
Blank == Ins0("")

IsComment(line) == line.op = "#"
IsDirective(line) == line.op \in {".intel_syntax", ".text", ".extern", ".global", ".data", ".string"}
IsLabelDef(line) == line.op = ":"
\* A line the assembler turns into a machine instruction.
IsMachineInstruction(line) ==
    ~IsComment(line) /\ ~IsDirective(line) /\ ~IsLabelDef(line) /\ line # Blank

add_header ==
    << Ins1(".intel_syntax", Name("noprefix")),
       Ins0(".text"),
       Ins1(".extern", Name("printf")),
       Ins1(".extern", Name("putchar")),
       Ins1(".extern", Name("sprintf")),
       Ins1(".global", Name("main")),
       LabelDef(Name("main")),
       Ins1("push", Reg("rbp")),
       Ins2("mov", Reg("rbp"), Reg("rsp")),
       Ins2("sub", Reg("rsp"), Imm(256)),
       Ins2("sub", Reg("rsp"), Imm(32)),
       Blank >>

add_footer ==
    << Comment("Program exit"),
       Ins2("add", Reg("rsp"), Imm(32)),
       Ins2("mov", Reg("rax"), Imm(0)),
       Ins0("leave"),
       Ins0("ret") >>

add_string_literals(pool) ==
    << Ins0(".data"),
       LabelDef(Name("fmt_str")), Ins1(".string", Raw("%s")),
       LabelDef(Name("fmt_int")), Ins1(".string", Raw("%d")),
       LabelDef(Name("fmt_float")), Ins1(".string", Raw("%f")) >>
    \o [j \in 1..(2 * Len(pool)) |->
            IF j % 2 = 1 THEN LabelDef(Sym("str", (j - 1) \div 2))
            ELSE Ins1(".string", Escaped(pool[j \div 2]))]

\* `*value as i64`: the float is cut towards zero.  A PushFloat payload counts
\* halves, so 3 is 1.5 and becomes 1, and -3 becomes -1.
as_i64(v) == IF v >= 0 THEN v \div 2 ELSE -((-v) \div 2)

\* The comparison arms differ in the setcc they emit.
Comparison_swapped(instr, setcc) ==
    << CommentOf("", instr),
       Ins1("pop", Reg("rax")),
       Ins1("pop", Reg("rbx")),
       Ins2("cmp", Reg("rax"), Reg("rbx")),
       Ins1(setcc, Reg("al")),
       Ins2("movzx", Reg("rax"), Reg("al")),
       Ins1("push", Reg("rax")) >>

Comparison(instr, setcc) ==
    << CommentOf("", instr),
       Ins1("pop", Reg("rax")),
       Ins1("pop", Reg("rbx")),
       Ins2("cmp", Reg("rbx"), Reg("rax")),
       Ins1(setcc, Reg("al")),
       Ins2("movzx", Reg("rax"), Reg("al")),
       Ins1("push", Reg("rax")) >>

Logical(instr, bitop) ==
    << CommentOf("", instr),
       Ins1("pop", Reg("rax")),
       Ins1("pop", Reg("rbx")),
       Ins2(bitop, Reg("rax"), Reg("rbx")),
       Ins2("cmp", Reg("rax"), Imm(0)),
       Ins1("setne", Reg("al")),
       Ins2("movzx", Reg("rax"), Reg("al")),
       Ins1("push", Reg("rax")) >>

\* The arms of process_instruction that only write text.
TextOnly ==
    {"PushInt", "PushFloat", "PushBool", "PushNull", "Pop", "CreateArray",
     "ArrayPush", "ArraySet", "ArrayGet", "Add", "Subtract", "Multiply", "Divide",
     "Modulo", "Negate", "Greater", "Less", "LessEqual", "Equal", "NotEqual",
     "GreaterEqual", "LogicalAnd", "LogicalOr", "LogicalNot", "JumpIfFalse", "Jump",
     "JumpIfTrue", "Label"}

Push(instr, v) ==
    << CommentOf("", instr), Ins2("mov", Reg("rax"), Imm(v)), Ins1("push", Reg("rax")) >>

Arithmetic(instr, body) ==
    << CommentOf("", instr), Ins1("pop", Reg("rax")), Ins1("pop", Reg("rbx")) >> \o body

Division(instr, result) ==
    << CommentOf("", instr),
       Ins1("pop", Reg("rcx")),
       Ins1("pop", Reg("rax")),
       Ins0("cqo"),
       Ins1("idiv", Reg("rcx")),
       Ins1("push", Reg(result)) >>

ConditionalJump_to_next(instr, jcc) ==
    << CommentOf("", instr),
       Ins1("pop", Reg("rax")),
       Ins2("cmp", Reg("rax"), Imm(0)),
       Ins1(jcc, Sym(".label", instr.n + 1)) >>

ConditionalJump(instr, jcc) ==
    << CommentOf("", instr),
       Ins1("pop", Reg("rax")),
       Ins2("cmp", Reg("rax"), Imm(0)),
       Ins1(jcc, Sym(".label", instr.n)) >>

Lowered(instr) ==
    CASE instr.op = "PushInt" -> Push(instr, instr.n)
      [] instr.op = "PushFloat" -> Push(instr, as_i64(instr.n))
      [] instr.op = "PushBool" -> Push(instr, IF instr.n = 1 THEN 1 ELSE 0)
      [] instr.op = "PushNull" -> Push(instr, 0)
      [] instr.op = "Pop" -> << CommentOf("", instr), Ins2("add", Reg("rsp"), Imm(8)) >>
      [] instr.op = "CreateArray" ->
            << CommentOf("", instr),
               Ins2("sub", Reg("rsp"), Imm(64)),
               Ins2("mov", Reg("rax"), Reg("rsp")),
               Ins1("push", Reg("rax")) >>
      [] instr.op = "ArrayPush" ->
            << CommentOf("", instr),
               Ins1("pop", Reg("rax")),
               Ins1("pop", Reg("rdx")),
               Ins2("mov", Mem("rdx", 0), Reg("rax")),
               Ins1("push", Reg("rdx")) >>
      [] instr.op = "ArraySet" ->
            << CommentOf("", instr),
               Ins1("pop", Reg("rdx")),
               Ins1("pop", Reg("rax")),
               Ins1("pop", Reg("rcx")),
               Ins2("mov", Mem("rcx + rdx * 8", 0), Reg("rax")),
               Ins1("push", Reg("rcx")) >>
      [] instr.op = "ArrayGet" ->
            << CommentOf("", instr),
               Ins1("pop", Reg("rdx")),
               Ins1("pop", Reg("rcx")),
               Ins2("mov", Reg("rax"), Mem("rcx + rdx * 8", 0)),
               Ins1("push", Reg("rax")) >>
      [] instr.op = "Add" ->
            Arithmetic(instr, << Ins2("add", Reg("rax"), Reg("rbx")), Ins1("push", Reg("rax")) >>)
      [] instr.op = "Subtract" ->
            Arithmetic(instr, << Ins2("sub", Reg("rbx"), Reg("rax")), Ins1("push", Reg("rbx")) >>)
      [] instr.op = "Multiply" ->
            Arithmetic(instr, << Ins1("imul", Reg("rbx")), Ins1("push", Reg("rax")) >>)
      [] instr.op = "Divide" -> Division(instr, "rax")
      [] instr.op = "Modulo" -> Division(instr, "rdx")
      [] instr.op = "Negate" ->
            << CommentOf("", instr),
               Ins1("pop", Reg("rax")),
               Ins1("neg", Reg("rax")),
               Ins1("push", Reg("rax")) >>
      [] instr.op = "Greater" -> Comparison(instr, "setg")
      [] instr.op = "Less" -> Comparison(instr, "setl")
      [] instr.op = "LessEqual" -> Comparison(instr, "setle")
      [] instr.op = "Equal" -> Comparison(instr, "sete")
      [] instr.op = "NotEqual" -> Comparison(instr, "setne")
      [] instr.op = "GreaterEqual" -> Comparison(instr, "setge")
      [] instr.op = "LogicalAnd" -> Logical(instr, "and")
      [] instr.op = "LogicalOr" -> Logical(instr, "or")
      [] instr.op = "LogicalNot" ->
            << CommentOf("", instr),
               Ins1("pop", Reg("rax")),
               Ins2("cmp", Reg("rax"), Imm(0)),
               Ins1("sete", Reg("al")),
               Ins2("movzx", Reg("rax"), Reg("al")),
               Ins1("push", Reg("rax")) >>
      [] instr.op = "JumpIfFalse" -> ConditionalJump(instr, "je")
      [] instr.op = "Jump" -> << CommentOf("", instr), Ins1("jmp", Sym(".label", instr.n)) >>
      [] instr.op = "JumpIfTrue" -> ConditionalJump(instr, "jne")
      [] instr.op = "Label" -> << LabelDef(Sym(".label", instr.n)) >>

(***************************************************************************)
(* AsmGenerator::generate, one step per instruction of its loop.  lowering *)
(* holds the slice it was called with, the index i of the instruction the  *)
(* loop handles next and, for each instruction handled, the number of      *)
(* lines asm_code had when process_instruction was entered (marks).        *)
(***************************************************************************)
Lowering == lowering.state = "loop"
current == lowering.instructions[lowering.i + 1]
AtArm(ops) == Lowering /\ lowering.i < Len(lowering.instructions) /\ current.op \in ops
\* The writeln! calls of one arm, and the loop moving on.
Written(lines) ==
    /\ asm_code' = asm_code \o lines
    /\ lowering' = [lowering EXCEPT !.i = @ + 1, !.marks = Append(@, Len(asm_code))]
BeyondAsmGenerator == << texts, machine, compile, codegen_vars >>

\* self.label_counter = 0 at the start of generate.
keep_label_counter(counter) == counter

reset_label_counter(counter) == 0

AsmGenerator_generate(instructions) ==
    /\ lowering.state = "idle"
    /\ asm_code' = add_header
    /\ string_literals' = << >>
    /\ label_counter' = reset_label_counter(label_counter)
    /\ variables' = NoOffsets
    /\ var_counter' = 0
    /\ lowering' = [state |-> "loop", instructions |-> instructions, i |-> 0, marks |-> << >>]
    /\ UNCHANGED BeyondAsmGenerator

process_instruction_TextOnly ==
    /\ AtArm(TextOnly)
    /\ Written(Lowered(current))
    /\ UNCHANGED << string_literals, label_counter, variables, var_counter >>
    /\ UNCHANGED BeyondAsmGenerator

\* let str_index = self.string_literals.len()
str_index_shared(pool, value) ==
    IF \E k \in 1..Len(pool) : pool[k] = value
    THEN (CHOOSE k \in 1..Len(pool) : pool[k] = value) - 1
    ELSE Len(pool)

str_index(pool, value) == Len(pool)

process_instruction_PushString ==
    /\ AtArm({"PushString"})
    /\ Written(<< CommentOf("", current),
                  Ins2("lea", Reg("rax"), Sym("str", str_index(string_literals, current.name))),
                  Ins1("push", Reg("rax")) >>)
    /\ string_literals' = Append(string_literals, current.name)
    /\ UNCHANGED << label_counter, variables, var_counter >>
    /\ UNCHANGED BeyondAsmGenerator

\* The conditional jump that takes Echo and EchoLine to the string branch.
print_string_jump_above == "jg"

print_string_jump == "jge"

PrintCall(format) ==
    << Ins2("lea", Reg("rcx"), Name(format)),
       Ins2("mov", Reg("rax"), Imm(0)),
       Ins1("call", Name("printf")) >>

\* The text Echo and EchoLine have in common, with their two label names.
EchoText(instr, print_string, echo_done, counter) ==
    << CommentOf("", instr),
       Ins1("pop", Reg("rdx")),
       Comment("Check if it's a string or an integer"),
       Ins2("cmp", Reg("rdx"), Imm(100000)),
       Ins1(print_string_jump, Sym(print_string, counter)),
       Comment("Print as integer") >>
    \o PrintCall("fmt_int")
    \o << Ins1("jmp", Sym(echo_done, counter)),
          LabelDef(Sym(print_string, counter)) >>
    \o PrintCall("fmt_str")
    \o << LabelDef(Sym(echo_done, counter)) >>

process_instruction_Echo ==
    /\ AtArm({"Echo"})
    /\ Written(EchoText(current, ".print_string", ".echo_done", label_counter))
    /\ label_counter' = label_counter + 1
    /\ UNCHANGED << string_literals, variables, var_counter >>
    /\ UNCHANGED BeyondAsmGenerator

process_instruction_EchoLine ==
    /\ AtArm({"EchoLine"})
    /\ Written(EchoText(current, ".print_string_line", ".echo_line_done", label_counter)
               \o << Ins2("mov", Reg("rcx"), Imm(10)),
                     Ins1("call", Name("putchar")) >>)
    /\ label_counter' = label_counter + 1
    /\ UNCHANGED << string_literals, variables, var_counter >>
    /\ UNCHANGED BeyondAsmGenerator

\* One of the two copy loops of Concat: bytes from [r9] to [r10] up to and
\* including the terminator.
Copy(label, counter) ==
    << LabelDef(Sym(label, counter)),
       Ins2("mov", Reg("al"), Mem("r9", 0)),
       Ins2("mov", Mem("r10", 0), Reg("al")),
       Ins1("inc", Reg("r9")),
       Ins1("inc", Reg("r10")),
       Ins2("test", Reg("al"), Reg("al")),
       Ins1("jnz", Sym(label, counter)) >>

Placeholder == "<concatenated string>"

ConcatText(instr, counter, index) ==
    << CommentOf("", instr),
       Ins1("pop", Reg("rdx")),
       Ins1("pop", Reg("rcx")),
       Ins2("sub", Reg("rsp"), Imm(512)),
       Ins2("mov", Reg("r8"), Reg("rsp")),
       Ins2("mov", Reg("r9"), Reg("rcx")),
       Ins2("mov", Reg("r10"), Reg("r8")) >>
    \o Copy(".copy_first", counter)
    \o << Ins1("dec", Reg("r10")),
          Ins2("mov", Reg("r9"), Reg("rdx")) >>
    \o Copy(".copy_second", counter)
    \o << Comment("Create a new string literal for the concatenated string"),
          Ins2("lea", Reg("rax"), Sym("str", index)),
          Ins2("add", Reg("rsp"), Imm(512)),
          Ins1("push", Reg("rax")) >>

process_instruction_Concat ==
    /\ AtArm({"Concat"})
    /\ Written(ConcatText(current, label_counter, Len(string_literals)))
    /\ string_literals' = Append(string_literals, Placeholder)
    /\ label_counter' = label_counter + 1
    /\ UNCHANGED << variables, var_counter >>
    /\ UNCHANGED BeyondAsmGenerator

\* let offset = 8 + (self.var_counter * 8) for a name not seen before.
new_offset_from_zero(counter) == counter * 8

new_offset(counter) == 8 + (counter * 8)

\* get_var_offset: the offset it returns and the fields it leaves.
get_var_offset(name) ==
    IF name \in DOMAIN variables THEN variables[name] ELSE new_offset(var_counter)
get_var_offset_fields(name) ==
    IF name \in DOMAIN variables
    THEN UNCHANGED << variables, var_counter >>
    ELSE /\ variables' = [k \in DOMAIN variables \cup {name} |->
                              IF k = name THEN new_offset(var_counter) ELSE variables[k]]
         /\ var_counter' = var_counter + 1

process_instruction_LoadVar ==
    /\ AtArm({"LoadVar"})
    /\ Written(<< CommentOf("", current),
                  Ins2("mov", Reg("rax"), Mem("rbp", -get_var_offset(current.name))),
                  Ins1("push", Reg("rax")) >>)
    /\ get_var_offset_fields(current.name)
    /\ UNCHANGED << string_literals, label_counter >>
    /\ UNCHANGED BeyondAsmGenerator

process_instruction_StoreVar ==
    /\ AtArm({"StoreVar"})
    /\ Written(<< CommentOf("", current),
                  Ins1("pop", Reg("rax")),
                  Ins2("mov", Mem("rbp", -get_var_offset(current.name)), Reg("rax")),
                  Ins1("push", Reg("rax")) >>)
    /\ get_var_offset_fields(current.name)
    /\ UNCHANGED << string_literals, label_counter >>
    /\ UNCHANGED BeyondAsmGenerator

\* The arm `_` of process_instruction: the instructions no other arm names.
HasLowering == TextOnly \cup {"PushString", "Echo", "EchoLine", "Concat", "LoadVar", "StoreVar"}

Unimplemented_and_ret(instr) == << CommentOf("Unimplemented: ", instr), Ins0("ret") >>

Unimplemented(instr) == << CommentOf("Unimplemented: ", instr) >>

process_instruction_Unimplemented ==
    /\ Lowering
    /\ lowering.i < Len(lowering.instructions)
    /\ current.op \notin HasLowering
    /\ Written(Unimplemented(current))
    /\ UNCHANGED << string_literals, label_counter, variables, var_counter >>
    /\ UNCHANGED BeyondAsmGenerator

process_instruction ==
    \/ process_instruction_TextOnly
    \/ process_instruction_PushString
    \/ process_instruction_Echo
    \/ process_instruction_EchoLine
    \/ process_instruction_Concat
    \/ process_instruction_LoadVar
    \/ process_instruction_StoreVar
    \/ process_instruction_Unimplemented

\* The end of generate: add_string_literals, add_footer, and the clone of
\* asm_code handed to the caller, recorded with the slice passed, the marks
\* and the literal pool the text was written from.
AsmGenerator_generate_return ==
    /\ Lowering
    /\ lowering.i = Len(lowering.instructions)
    /\ LET text == asm_code \o add_string_literals(string_literals) \o add_footer
       IN /\ asm_code' = text
          /\ texts' = Append(texts, [instructions |-> lowering.instructions,
                                    marks |-> Append(lowering.marks, Len(asm_code)),
                                    pool |-> string_literals,
                                    text |-> text])
    /\ lowering' = NotLowering
    /\ UNCHANGED << string_literals, label_counter, variables, var_counter >>
    /\ UNCHANGED << machine, compile, codegen_vars >>

(***************************************************************************)
(* Lowering on its own: up to MaxLowerings calls of AsmGenerator::generate *)
(* on one generator, each on a slice of the family.                        *)
(***************************************************************************)
Echo == Plain("Echo")
EchoLine == Plain("EchoLine")
Concat == Plain("Concat")

\* The sequence of src/src/bin/asmtest.rs with the literal "sum: ".
ScenarioA ==
    << PushInt(10), StoreVar("a"), PushInt(20), StoreVar("b"), LoadVar("a"),
       LoadVar("b"), Plain("Add"), StoreVar("c"), PushString("sum: "), Echo,
       LoadVar("c"), Echo >>

Slices ==
    {<< >>,
     ScenarioA,
     << PushString("s"), Echo, PushString("s"), EchoLine >>,
     << PushString("a"), PushString("b"), Concat, PushString("a"), Echo >>,
     << LoadVar("b"), StoreVar("a"), LoadVar("b"), StoreVar("c"), LoadVar("a") >>,
     << Call("f", 0), Return >>,
     << PushInt(1), Call("f", 1), Echo, Return, PushFloat(3), EchoLine >>,
     << PushBool(TRUE), JumpIfFalse(3), Jump(4), Label(3), Label(4) >>,
     << PushString("q\""), EchoLine, PushNull, Pop >>,
     << PushInt(7), PushInt(2), Plain("Subtract"), Plain("Negate"), LoadVar("a"),
        Plain("Less"), Plain("LogicalNot"), Echo >>}

NextAsm ==
    \/ /\ lowering.state = "idle"
       /\ Len(texts) < MaxLowerings
       /\ \E instructions \in Slices : AsmGenerator_generate(instructions)
    \/ process_instruction
    \/ AsmGenerator_generate_return

SpecAsm == Init /\ [][NextAsm]_vars

(***************************************************************************)
(* One lowering of a sequence that names many variables: get_var_offset    *)
(* hands out a new offset for every name it has not seen, whatever their   *)
(* number.                                                                 *)
(***************************************************************************)
ManyNames ==
    << "v01", "v02", "v03", "v04", "v05", "v06", "v07", "v08", "v09", "v10",
       "v11", "v12", "v13", "v14", "v15", "v16", "v17", "v18", "v19", "v20",
       "v21", "v22", "v23", "v24", "v25", "v26", "v27", "v28", "v29", "v30",
       "v31", "v32", "v33", "v34" >>

\* Stores and loads of the first k names, each name once.
Touches(k) ==
    [i \in 1..k |-> IF i % 2 = 1 THEN StoreVar(ManyNames[i]) ELSE LoadVar(ManyNames[i])]

FrameSlices == {Touches(k) : k \in 30..Len(ManyNames)}

NextFrame ==
    \/ /\ lowering.state = "idle"
       /\ texts = << >>
       /\ \E instructions \in FrameSlices : AsmGenerator_generate(instructions)
    \/ process_instruction_LoadVar
    \/ process_instruction_StoreVar
    \/ AsmGenerator_generate_return

SpecFrame == Init /\ [][NextFrame]_vars

(***************************************************************************)
(* The emitted text as the assembler and the loader see it.  The lines up  *)
(* to the .data directive are the code section; what follows it is data.   *)
(* A string is the sequence of its bytes.                                  *)
(***************************************************************************)
\* The stack the program is entered with, the address the data section is
\* loaded at, the return address main is called with, and the values a
\* register or a stack slot can hold when nothing the text wrote is in it.
StackTop == 3000000
StackSize == 1000000
DataBase == 1000000
ReturnAddress == 4198400
Junk == {0, 200000}

Bytes(s) ==
    CASE s = "%s" -> << 37, 115 >>
      [] s = "%d" -> << 37, 100 >>
      [] s = "%f" -> << 37, 102 >>
      [] s = "s" -> << 115 >>
      [] s = "a" -> << 97 >>
      [] s = "b" -> << 98 >>
      [] s = "sum: " -> << 115, 117, 109, 58, 32 >>
      [] s = "q\"" -> << 113, 34 >>
      [] s = "<concatenated string>" ->
            << 60, 99, 111, 110, 99, 97, 116, 101, 110, 97, 116, 101, 100, 32,
               115, 116, 114, 105, 110, 103, 62 >>

\* s.replace("\"", "\\\""): a backslash before every double quote.
RECURSIVE replace_quote(_)
replace_quote(bytes) ==
    IF bytes = << >> THEN << >>
    ELSE (IF Head(bytes) = 34 THEN << 92, 34 >> ELSE << Head(bytes) >>)
         \o replace_quote(Tail(bytes))

\* The bytes the assembler stores for the characters between the quotes of
\* .string: a backslash makes the character after it literal.
RECURSIVE Assembled(_)
Assembled(chars) ==
    IF chars = << >> THEN << >>
    ELSE IF Head(chars) = 92 /\ Len(chars) > 1
         THEN << chars[2] >> \o Assembled(SubSeq(chars, 3, Len(chars)))
         ELSE << Head(chars) >> \o Assembled(Tail(chars))

StringBytes(line) ==
    IF line.d.k = "escaped" THEN Assembled(replace_quote(Bytes(line.d.r)))
    ELSE Assembled(Bytes(line.d.r))

DataStart(t) == CHOOSE j \in 1..Len(t) : t[j].op = ".data"
InCode(t, j) == j >= 1 /\ j < DataStart(t)

\* The bytes the .string lines before line j take, each with its terminator.
RECURSIVE DataSize(_, _)
DataSize(t, j) ==
    IF j <= 1 THEN 0
    ELSE DataSize(t, j - 1)
         + (IF t[j - 1].op = ".string" THEN Len(StringBytes(t[j - 1])) + 1 ELSE 0)

LabelLine(t, sym) == CHOOSE j \in 1..Len(t) : t[j] = LabelDef(sym)
SymbolAddress(t, sym) == DataBase + DataSize(t, LabelLine(t, sym))

\* The data section in memory.
DataMemory(t) ==
    LET strings == {j \in 1..Len(t) : t[j].op = ".string"}
    IN [a \in DataBase..(DataBase + DataSize(t, Len(t) + 1) - 1) |->
            LET j == CHOOSE i \in strings :
                         /\ DataBase + DataSize(t, i) <= a
                         /\ a < DataBase + DataSize(t, i + 1)
                off == a - DataBase - DataSize(t, j)
            IN [w |-> 1,
                v |-> IF off < Len(StringBytes(t[j])) THEN StringBytes(t[j])[off + 1] ELSE 0]]

\* What the assembler and the linker accept: every label is defined once,
\* and every label a line refers to is defined or declared extern.
Assembles(t) ==
    LET defs == {j \in 1..Len(t) : IsLabelDef(t[j])}
    IN /\ \A i, j \in defs : t[i].d = t[j].d => i = j
       /\ \A j \in 1..Len(t) :
              /\ t[j].op \in {"jmp", "je", "jne", "jnz", "jge", "jg"}
                     => \E i \in defs : t[i].d = t[j].d
              /\ t[j].op = "lea" => \E i \in defs : t[i].d = t[j].s
              /\ t[j].op = "call" => \E i \in 1..Len(t) : t[i] = Ins1(".extern", t[j].d)

(***************************************************************************)
(* The processor running the text of the last call of generate.  Each step *)
(* executes the line at ip.  Registers hold integers; al is the low byte   *)
(* of rax.  printf and putchar follow the Windows x64 convention the text  *)
(* is written for: arguments in rcx and rdx, the volatile registers and    *)
(* the 32 bytes above the stack pointer belong to the callee.  The         *)
(* alignment of the stack pointer at a call is not modelled.               *)
(***************************************************************************)
\* Bytes read when looking for the terminator of a string.
MaxCString == 32

Text == texts[Len(texts)].text
TextMarks == texts[Len(texts)].marks
TextSlice == texts[Len(texts)].instructions

\* The index in the slice of the instruction whose lines hold line j, or -1.
InstrOf(j) ==
    IF \E k \in 0..(Len(TextSlice) - 1) : TextMarks[k + 1] < j /\ j <= TextMarks[k + 2]
    THEN CHOOSE k \in 0..(Len(TextSlice) - 1) : TextMarks[k + 1] < j /\ j <= TextMarks[k + 2]
    ELSE -1
FirstLine(k) == TextMarks[k + 1] + 1

Low(v) == v % 256
SetLow(v, b) == v - (v % 256) + b

\* Bitwise and, or of two integers in two's complement.
RECURSIVE AndN(_, _)
AndN(a, b) ==
    IF a = 0 \/ b = 0 THEN 0
    ELSE (a % 2) * (b % 2) + 2 * AndN(a \div 2, b \div 2)
Not(a) == -a - 1
And(a, b) ==
    IF a >= 0 /\ b >= 0 THEN AndN(a, b)
    ELSE IF a < 0 /\ b < 0 THEN Not(Not(a) + Not(b) - AndN(Not(a), Not(b)))
    ELSE IF a < 0 THEN b - AndN(b, Not(a))
    ELSE a - AndN(a, Not(b))
Or(a, b) == Not(And(Not(a), Not(b)))

\* Signed division as idiv does it: the quotient is cut towards zero.
Quotient(a, b) ==
    IF (a >= 0) = (b > 0)
    THEN (IF a >= 0 THEN a ELSE -a) \div (IF b > 0 THEN b ELSE -b)
    ELSE -((IF a >= 0 THEN a ELSE -a) \div (IF b > 0 THEN b ELSE -b))

InStack(a) == a >= StackTop - StackSize /\ a < StackTop + 64
Mapped(m, a) == a \in DOMAIN m.mem \/ InStack(a)
\* A quadword or a byte read; memory nothing was written to holds junk.
Load8(m, a, junk) ==
    IF a \in DOMAIN m.mem /\ m.mem[a].w = 8 THEN m.mem[a].v ELSE junk
Load1(m, a, junk) ==
    IF a \in DOMAIN m.mem THEN Low(m.mem[a].v) ELSE Low(junk)
Store(mem, a, w, v) ==
    [x \in DOMAIN mem \cup {a} |-> IF x = a THEN [w |-> w, v |-> v] ELSE mem[x]]
Peek(m, a) == IF a \in DOMAIN m.mem THEN m.mem[a].v ELSE 0

\* The bytes at a up to the terminator; -1 stands for memory that is not
\* mapped or for a string longer than MaxCString.
RECURSIVE CString(_, _, _)
CString(mem, a, n) ==
    IF n = 0 \/ a \notin DOMAIN mem \/ mem[a].w # 1 THEN << -1 >>
    ELSE IF mem[a].v = 0 THEN << >>
    ELSE << mem[a].v >> \o CString(mem, a + 1, n - 1)
StringAt(mem, a) == CString(mem, a, MaxCString)
IsString(bytes) == \A i \in 1..Len(bytes) : bytes[i] # -1

RegVal(m, r) == IF r = "al" THEN Low(m.reg["rax"]) ELSE m.reg[r]
WithReg(m, r, v) ==
    IF r = "al" THEN [m EXCEPT !.reg["rax"] = SetLow(@, Low(v))]
    ELSE [m EXCEPT !.reg[r] = v]
Address(m, o) ==
    IF o.r = "rcx + rdx * 8" THEN m.reg["rcx"] + m.reg["rdx"] * 8
    ELSE m.reg[o.r] + o.n
Advance(m) == [m EXCEPT !.ip = @ + 1]
Fault(m) == [m EXCEPT !.status = "fault"]

\* The condition of a jcc or setcc after cmp l, r.
Taken(op, l, r) ==
    CASE op \in {"je", "sete"} -> l = r
      [] op \in {"jne", "jnz", "setne"} -> l # r
      [] op \in {"jge", "setge"} -> l >= r
      [] op \in {"jg", "setg"} -> l > r
      [] op = "setl" -> l < r
      [] op = "setle" -> l <= r

\* The value of a source operand that is not in memory.
Value(m, t, o) ==
    CASE o.k = "reg" -> RegVal(m, o.r)
      [] o.k = "imm" -> o.n
      [] o.k \in {"sym", "name"} -> SymbolAddress(t, o)

\* printf as called by Echo and EchoLine: the format at rcx, the value in
\* rdx.  The event records the format and the value, and for %s the bytes
\* at the address the value is.
PrintEvent(m, t) ==
    IF m.reg["rcx"] = SymbolAddress(t, Name("fmt_int"))
    THEN [format |-> "%d", value |-> m.reg["rdx"], bytes |-> << >>]
    ELSE [format |-> "%s", value |-> m.reg["rdx"],
          bytes |-> StringAt(m.mem, m.reg["rdx"])]
PutcharEvent(m) ==
    [format |-> "putchar", value |-> m.reg["rcx"], bytes |-> << Low(m.reg["rcx"]) >>]

\* The return of a callee: the volatile registers and the four quadwords of
\* its home space hold what the callee left there.
AfterCall(m, junk) ==
    [m EXCEPT !.reg = [r \in Registers |->
                           IF r \in {"rax", "rcx", "rdx", "r8", "r9", "r10"}
                           THEN junk ELSE @[r]],
              !.mem = [x \in DOMAIN @ \cup {m.reg["rsp"] + 8 * i : i \in 0..3} |->
                           IF x \in {m.reg["rsp"] + 8 * i : i \in 0..3}
                           THEN [w |-> 8, v |-> junk] ELSE @[x]],
              !.ip = @ + 1]

call(m, t, target, junk) ==
    CASE target = "printf" ->
            IF m.reg["rcx"] \notin {SymbolAddress(t, Name("fmt_int")),
                                   SymbolAddress(t, Name("fmt_str"))}
            THEN Fault(m)
            ELSE LET event == PrintEvent(m, t)
                     printed == [m EXCEPT !.out = Append(@, event)]
                 IN IF IsString(event.bytes) THEN AfterCall(printed, junk)
                    ELSE Fault(printed)
      [] target = "putchar" ->
            AfterCall([m EXCEPT !.out = Append(@, PutcharEvent(m))], junk)
      [] OTHER -> Fault(m)

mov(m, t, d, s, junk) ==
    LET byte == d = Reg("al") \/ s = Reg("al")
        v == IF s.k = "mem"
             THEN (IF byte THEN Load1(m, Address(m, s), junk)
                   ELSE Load8(m, Address(m, s), junk))
             ELSE Value(m, t, s)
    IN IF s.k = "mem" /\ ~Mapped(m, Address(m, s)) THEN Fault(m)
       ELSE IF d.k = "mem"
            THEN (IF ~Mapped(m, Address(m, d)) THEN Fault(m)
                  ELSE Advance([m EXCEPT !.mem = Store(@, Address(m, d),
                                                       IF byte THEN 1 ELSE 8, v)]))
            ELSE Advance(WithReg(m, d.r, v))

push(m, v) ==
    LET a == m.reg["rsp"] - 8
    IN IF ~InStack(a) THEN Fault(m)
       ELSE Advance([m EXCEPT !.reg["rsp"] = a, !.mem = Store(@, a, 8, v)])

pop(m, r, junk) ==
    LET a == m.reg["rsp"]
    IN IF ~Mapped(m, a) THEN Fault(m)
       ELSE Advance([WithReg(m, r, Load8(m, a, junk)) EXCEPT !.reg["rsp"] = a + 8])

\* The processor after the line at ip.
Execute(m, t, junk) ==
    LET line == t[m.ip]
        op == line.op
        d == line.d
        s == line.s
    IN CASE ~IsMachineInstruction(line) -> Advance(m)
         [] op = "push" -> push(m, RegVal(m, d.r))
         [] op = "pop" -> pop(m, d.r, junk)
         [] op = "mov" -> mov(m, t, d, s, junk)
         [] op = "lea" -> Advance(WithReg(m, d.r, SymbolAddress(t, s)))
         [] op = "add" -> Advance(WithReg(m, d.r, RegVal(m, d.r) + Value(m, t, s)))
         [] op = "sub" -> Advance(WithReg(m, d.r, RegVal(m, d.r) - Value(m, t, s)))
         [] op = "and" -> Advance(WithReg(m, d.r, And(RegVal(m, d.r), Value(m, t, s))))
         [] op = "or" -> Advance(WithReg(m, d.r, Or(RegVal(m, d.r), Value(m, t, s))))
         [] op = "imul" ->
                LET product == m.reg["rax"] * RegVal(m, d.r)
                IN Advance([m EXCEPT !.reg["rax"] = product,
                                     !.reg["rdx"] = IF product < 0 THEN -1 ELSE 0])
         [] op = "cqo" ->
                Advance([m EXCEPT !.reg["rdx"] = IF m.reg["rax"] < 0 THEN -1 ELSE 0])
         [] op = "idiv" ->
                IF RegVal(m, d.r) = 0 THEN Fault(m)
                ELSE LET q == Quotient(m.reg["rax"], RegVal(m, d.r))
                     IN Advance([m EXCEPT !.reg["rax"] = q,
                                          !.reg["rdx"] = m.reg["rax"] - q * RegVal(m, d.r)])
         [] op = "neg" -> Advance(WithReg(m, d.r, -RegVal(m, d.r)))
         [] op = "inc" -> Advance(WithReg(m, d.r, RegVal(m, d.r) + 1))
         [] op = "dec" -> Advance(WithReg(m, d.r, RegVal(m, d.r) - 1))
         [] op = "cmp" -> Advance([m EXCEPT !.l = Value(m, t, d), !.r = Value(m, t, s)])
         [] op = "test" ->
                Advance([m EXCEPT !.l = And(Value(m, t, d), Value(m, t, s)), !.r = 0])
         [] op \in {"setg", "setl", "setle", "sete", "setne", "setge"} ->
                Advance(WithReg(m, d.r, IF Taken(op, m.l, m.r) THEN 1 ELSE 0))
         [] op = "movzx" -> Advance(WithReg(m, d.r, RegVal(m, s.r)))
         [] op = "jmp" -> [m EXCEPT !.ip = LabelLine(t, d)]
         [] op \in {"je", "jne", "jnz", "jge", "jg"} ->
                IF Taken(op, m.l, m.r) THEN [m EXCEPT !.ip = LabelLine(t, d)]
                ELSE Advance(m)
         [] op = "call" -> call(m, t, d.r, junk)
         [] op = "leave" ->
                IF ~Mapped(m, m.reg["rbp"]) THEN Fault(m)
                ELSE Advance([m EXCEPT !.reg["rsp"] = m.reg["rbp"] + 8,
                                       !.reg["rbp"] = Load8(m, m.reg["rbp"], junk)])
         [] op = "ret" ->
                IF Load8(m, m.reg["rsp"], junk) = ReturnAddress
                THEN [m EXCEPT !.status = "returned", !.reg["rsp"] = @ + 8]
                ELSE Fault(m)

\* What the processor holds on entering the lines of an instruction.
Snapshot(m) ==
    [k |-> InstrOf(m.ip), rsp |-> m.reg["rsp"], out |-> m.out,
     top |-> Peek(m, m.reg["rsp"]), second |-> Peek(m, m.reg["rsp"] + 8)]
Entering(m, after) ==
    /\ InstrOf(after.ip) # -1
    /\ InstrOf(after.ip) # InstrOf(m.ip) \/ after.ip = FirstLine(InstrOf(after.ip))

BeyondMachine == << asm_vars, compile, codegen_vars >>

\* The runtime calls main of the assembled text: the return address is on
\* the stack and the data section is in memory.  A text the assembler or the
\* linker refuses is never run.
start ==
    /\ machine.status = "off"
    /\ lowering.state = "idle"
    /\ texts # << >>
    /\ machine' =
           IF ~Assembles(Text) THEN [machine EXCEPT !.status = "rejected"]
           ELSE [machine EXCEPT
                     !.status = "running",
                     !.ip = LabelLine(Text, Name("main")),
                     !.reg["rsp"] = StackTop - 8,
                     !.reg["rbp"] = StackTop + 32,
                     !.mem = Store(DataMemory(Text), StackTop - 8, 8, ReturnAddress)]
    /\ UNCHANGED BeyondMachine

step ==
    /\ machine.status = "running"
    /\ InCode(Text, machine.ip)
    /\ \E junk \in Junk :
           LET after == Execute(machine, Text, junk)
           IN machine' = IF Entering(machine, after)
                         THEN [after EXCEPT !.at = Snapshot(after)]
                         ELSE after
    /\ UNCHANGED BeyondMachine

\* Control leaves the code section of the text: the bytes that follow it in
\* the image are not the text's, and what the processor does with them is
\* not determined by it.
leave_code ==
    /\ machine.status = "running"
    /\ ~InCode(Text, machine.ip)
    /\ \E outcome \in {"fault", "returned"}, junk \in Junk, printed \in BOOLEAN :
           machine' = [machine EXCEPT
                           !.status = outcome,
                           !.reg["rax"] = junk,
                           !.out = IF printed
                                   THEN Append(@, [format |-> "%d", value |-> junk,
                                                   bytes |-> << >>])
                                   ELSE @]
    /\ UNCHANGED BeyondMachine

\* The slices that are lowered and run.
RunSlices ==
    {ScenarioA,
     << PushInt(99999), Echo >>,
     << PushInt(100000), Echo >>,
     << PushInt(-5), EchoLine >>,
     << PushString("s"), EchoLine, PushInt(100000), EchoLine >>,
     << PushString("a"), PushString("b"), Concat, Echo >>,
     << PushString("q\""), PushString("sum: "), Concat, Pop >>,
     << PushInt(5), PushString("a"), Concat, Echo >>,
     << PushInt(1), Call("f", 1), Echo, Return >>,
     << PushInt(5), PushInt(7), Echo, Echo >>,
     << LoadVar("a"), Echo >>,
     << PushInt(7), PushInt(2), Plain("Subtract"), PushInt(-3), Plain("Divide"), Echo >>,
     << PushBool(TRUE), JumpIfFalse(4), PushInt(1), Echo, Label(4) >>}

NextRun ==
    \/ /\ lowering.state = "idle"
       /\ texts = << >>
       /\ \E instructions \in RunSlices : AsmGenerator_generate(instructions)
    \/ process_instruction
    \/ AsmGenerator_generate_return
    \/ start
    \/ step
    \/ leave_code

SpecRun == Init /\ [][NextRun]_vars

(***************************************************************************)
(* The two-operand and one-operand instructions on the processor: two      *)
(* integers are pushed, the instruction works on them, and Echo prints     *)
(* what it left.  The operands take both signs, zero, and pairs that have  *)
(* no bit in common.                                                       *)
(***************************************************************************)
OperandValues == {-7, 0, 2, 3}
TwoOperand ==
    {"Add", "Subtract", "Multiply", "Divide", "Modulo", "Greater", "Less",
     "LessEqual", "Equal", "NotEqual", "GreaterEqual", "LogicalAnd", "LogicalOr"}
OperationSlices ==
    {<< PushInt(first), PushInt(second), Plain(op), Echo >> :
         first \in OperandValues, second \in OperandValues, op \in TwoOperand}
    \cup {<< PushInt(operand), Plain("LogicalNot"), Echo >> : operand \in OperandValues}

NextOperations ==
    \/ /\ lowering.state = "idle"
       /\ texts = << >>
       /\ \E instructions \in OperationSlices : AsmGenerator_generate(instructions)
    \/ process_instruction_TextOnly
    \/ process_instruction_Echo
    \/ AsmGenerator_generate_return
    \/ start
    \/ step
    \/ leave_code

SpecOperations == Init /\ [][NextOperations]_vars

(***************************************************************************)
(* Code generation followed by lowering: a caller hands the sequence that  *)
(* CodeGenerator::generate returned to AsmGenerator::generate.  The trees  *)
(* are those of the family up to one level of nesting less, and programs   *)
(* that put conditionals, loops, echoes and concatenations side by side    *)
(* and inside one another.                                                 *)
(***************************************************************************)
ConcatSA == BinaryExpr("Concat", StringLiteral("s"), VarA)
EchoTwo == EchoStmt(<< ConcatSA, VarA >>)
LabelPrograms ==
    {Program(<< IfStmt(LessA, EchoTwo, Some(EchoTwo)),
                WhileStmt(LessA, IfStmt(LessA, EchoStmt(<< ConcatSA >>), None)) >>),
     Program(<< EchoTwo,
                ForStmt(Some(ExpressionStmt(AssignA)), Some(LessA), Some(AssignA),
                        WhileStmt(LessA, EchoTwo)),
                FunctionDecl("f", << >>, IfStmt(LessA, EchoTwo, Some(EchoTwo))),
                IfStmt(LessA, EchoStmt(<< One >>), Some(IfStmt(LessA, EchoTwo, None))) >>)}

LabelTrees == Exprs \cup Stmts(MaxDepth - 1) \cup OtherStmts \cup Programs \cup LabelPrograms

\* The caller passes on what the last call of generate returned.
lower_generated ==
    /\ Idle
    /\ calls # << >>
    /\ LastCall.result.tag = "Ok"
    /\ lowering.state = "idle"
    /\ texts = << >>
    /\ AsmGenerator_generate(LastCall.result.instructions)

NextLabels ==
    \/ calls = << >> /\ \E node \in LabelTrees : generate(node)
    \/ generate_node
    \/ generate_return
    \/ lower_generated
    \/ process_instruction
    \/ AsmGenerator_generate_return

SpecLabels == Init /\ [][NextLabels]_vars

(***************************************************************************)
(* The phases before code generation (src/src/lexer.rs, src/src/parser.rs, *)
(* src/src/typechecker.rs) on the part of the language the files below     *)
(* use: echo, if / else / elseif, foreach, calls, variables, integers and  *)
(* <.  A source is the sequence of its lexemes; a lexeme of kind Invalid   *)
(* stands for a character the lexer rejects.  Locations are left out of    *)
(* tokens, nodes and errors.                                               *)
(***************************************************************************)
Token(kind, text, value) == [kind |-> kind, text |-> text, value |-> value]
Kw(kind) == Token(kind, "", 0)
IntTok(v) == Token("IntLiteral", "", v)
VarTok(name) == Token("Variable", name, 0)
IdTok(name) == Token("Identifier", name, 0)
Invalid == Kw("Invalid")

\* CompilerError: the variant, its message and what the message quotes.
CompilerError(variant, message, detail) ==
    [variant |-> variant, message |-> message, detail |-> detail]
lexical_error(message, detail) == CompilerError("LexicalError", message, detail)
syntax_error(message, detail) == CompilerError("SyntaxError", message, detail)
type_error(message, detail) == CompilerError("TypeError", message, detail)
CodeGenError(message) == CompilerError("CodeGenError", message, "")
\* impl From<io::Error> for CompilerError, derived by #[from].
IoError(kind) == CompilerError("IoError", kind, "")

\* Lexer::tokenize: PhpOpen, then the tokens up to the end of the source,
\* then Eof; the first invalid character ends it with an error.
RECURSIVE scan(_, _, _)
scan(source, i, tokens) ==
    IF i > Len(source)
    THEN [error |-> NoError, tokens |-> Append(tokens, Kw("Eof"))]
    ELSE IF source[i].kind = "Invalid"
         THEN [error |-> lexical_error("Invalid character", "#"), tokens |-> << >>]
         ELSE scan(source, i + 1, Append(tokens, source[i]))

tokenize(source) == scan(source, 1, << Kw("PhpOpen") >>)

\* What a parsing function returns, with the position of self.current after it.
Parsed(node, p) == [error |-> NoError, node |-> << node >>, p |-> p]
Consumed(p) == [error |-> NoError, node |-> << >>, p |-> p]
Unparsed(error) == [error |-> error, node |-> << >>, p |-> 0]

\* self.current at position p: the kind of the token, None past the end.
current_kind(ts, p) == IF p <= Len(ts) THEN ts[p].kind ELSE "None"

\* expect: {:?} of the token found, "end of file" when there is none.
expect(ts, p, kind, message) ==
    IF current_kind(ts, p) = kind
    THEN Consumed(p + 1)
    ELSE Unparsed(syntax_error(message,
                               IF p <= Len(ts) THEN ts[p].kind ELSE "end of file"))

\* match_token: the position after it, and whether it matched.
match_token(ts, p, kind) == IF current_kind(ts, p) = kind THEN p + 1 ELSE p

\* The ? after a call inside the parser: the error of r, or what follows
\* applied to what r returned.
Try(r, Rest(_)) == IF r.error # NoError THEN r ELSE Rest(r)

RECURSIVE parse_expression(_, _)
RECURSIVE parse_relational(_, _, _)
RECURSIVE parse_primary_inner(_, _)
RECURSIVE parse_statement(_, _)
RECURSIVE parse_if_statement(_, _)

\* The arguments of a call, after its "(": none, or one expression ("," is
\* not among the tokens).
parse_call(ts, p, name) ==
    IF current_kind(ts, p) = "RightParen"
    THEN Parsed(FunctionCall(name, << >>), p + 1)
    ELSE Try(parse_expression(ts, p), LAMBDA arg :
         Try(expect(ts, arg.p, "RightParen", "Expected ')' after arguments"),
             LAMBDA close : Parsed(FunctionCall(name, arg.node), close.p)))

parse_primary_inner(ts, p) ==
    CASE current_kind(ts, p) = "IntLiteral" -> Parsed(IntLiteral(ts[p].value), p + 1)
      [] current_kind(ts, p) = "Variable" -> Parsed(Variable(ts[p].text), p + 1)
      [] current_kind(ts, p) = "LeftParen" ->
            Try(parse_expression(ts, p + 1), LAMBDA expr :
            Try(expect(ts, expr.p, "RightParen", "Expected ')' after expression"),
                LAMBDA close : Parsed(expr.node[1], close.p)))
      [] current_kind(ts, p) = "Identifier" ->
            IF current_kind(ts, p + 1) = "LeftParen"
            THEN parse_call(ts, p + 2, ts[p].text)
            ELSE Parsed(Variable(ts[p].text), p + 1)
      [] current_kind(ts, p) = "None" ->
            Unparsed(syntax_error("Unexpected end of file", ""))
      [] OTHER -> Unparsed(syntax_error("Unexpected token", ts[p].kind))

\* The loop of parse_relational on the expression parsed so far.
parse_relational(ts, expr, p) ==
    IF current_kind(ts, p) = "LessThan"
    THEN Try(parse_primary_inner(ts, p + 1), LAMBDA right :
             parse_relational(ts, BinaryExpr("Less", expr, right.node[1]), right.p))
    ELSE Parsed(expr, p)

\* parse_expression down to parse_primary: of the operators on the way only
\* < is among the tokens.
parse_expression(ts, p) ==
    Try(parse_primary_inner(ts, p), LAMBDA left :
        parse_relational(ts, left.node[1], left.p))

parse_echo_statement(ts, p) ==
    Try(parse_expression(ts, p + 1), LAMBDA expr :
    Try(expect(ts, expr.p, "Semicolon", "Expected ';' after echo statement"),
        LAMBDA semi : Parsed(EchoStmt(expr.node), semi.p)))

\* The variable after "as": "=>" is not among the tokens, so it is the value
\* variable.
foreach_variable(ts, p) ==
    CASE current_kind(ts, p) = "Variable" -> Consumed(p + 1)
      [] current_kind(ts, p) = "None" ->
            Unparsed(syntax_error("Unexpected end of file in foreach", ""))
      [] OTHER -> Unparsed(syntax_error("Expected variable after 'as' in foreach", ""))

parse_foreach_statement(ts, p) ==
    Try(expect(ts, p + 1, "LeftParen", "Expected '(' after 'foreach'"), LAMBDA open :
    Try(parse_expression(ts, open.p), LAMBDA array :
    Try(expect(ts, array.p, "As", "Expected 'as' after array expression in foreach"),
        LAMBDA as :
    Try(foreach_variable(ts, as.p), LAMBDA var :
    Try(expect(ts, var.p, "RightParen", "Expected ')' after foreach parameters"),
        LAMBDA close :
    Try(parse_statement(ts, close.p), LAMBDA body :
        Parsed(ForeachStmt(array.node[1], ts[as.p].text, body.node[1]), body.p)))))))

\* Some(Box::new(..)) around what a parsing function returned.
SomeOf(r) == [error |-> NoError, node |-> Some(r.node[1]), p |-> r.p]

\* The else slot of parse_if_statement, from position p.  After
\* match_token(ElseIf) has consumed the elseif, parse_if_statement starts on
\* the token that follows it.
else_branch(ts, p) ==
    IF match_token(ts, p, "Else") # p
    THEN Try(parse_statement(ts, p + 1), LAMBDA branch : SomeOf(branch))
    ELSE IF match_token(ts, p, "ElseIf") # p
         THEN Try(parse_if_statement(ts, p + 1), LAMBDA branch : SomeOf(branch))
         ELSE [error |-> NoError, node |-> None, p |-> p]

\* self.advance() "skip 'if'" steps over the token at p, whatever it is.
parse_if_statement(ts, p) ==
    Try(expect(ts, p + 1, "LeftParen", "Expected '(' after 'if'"), LAMBDA open :
    Try(parse_expression(ts, open.p), LAMBDA condition :
    Try(expect(ts, condition.p, "RightParen", "Expected ')' after condition"),
        LAMBDA close :
    Try(parse_statement(ts, close.p), LAMBDA then_branch :
    Try(else_branch(ts, then_branch.p), LAMBDA else :
        Parsed(IfStmt(condition.node[1], then_branch.node[1], else.node), else.p))))))

parse_statement(ts, p) ==
    CASE current_kind(ts, p) = "Echo" -> parse_echo_statement(ts, p)
      [] current_kind(ts, p) = "If" -> parse_if_statement(ts, p)
      [] current_kind(ts, p) = "Foreach" -> parse_foreach_statement(ts, p)
      [] current_kind(ts, p) = "None" ->
            Unparsed(syntax_error("Unexpected end of file", ""))
      [] OTHER ->
            Try(parse_expression(ts, p), LAMBDA expr :
            Try(expect(ts, expr.p, "Semicolon", "Expected ';' after expression"),
                LAMBDA semi : Parsed(ExpressionStmt(expr.node[1]), semi.p)))

\* The loop of parse_program on the statements parsed so far.
RECURSIVE parse_statements(_, _, _)
parse_statements(ts, p, statements) ==
    IF current_kind(ts, p) \in {"None", "Eof", "PhpClose"}
    THEN Parsed(Program(statements), p)
    ELSE Try(parse_statement(ts, p), LAMBDA stmt :
             parse_statements(ts, stmt.p, Append(statements, stmt.node[1])))

parse_program(ts) ==
    parse_statements(ts, IF current_kind(ts, 1) = "PhpOpen" THEN 2 ELSE 1, << >>)

\* TypeChecker::new(): the built-in functions.
BuiltIns == {"strlen", "substr"}

\* check_node: the error of the first node it rejects, NoError when it
\* accepts.  Of the nodes the parser above builds it rejects only a call of
\* a function that is not in the table.
RECURSIVE check_node(_)
RECURSIVE check_nodes(_, _)
check_nodes(nodes, i) ==
    IF i > Len(nodes) THEN NoError
    ELSE LET first == check_node(nodes[i])
         IN IF first # NoError THEN first ELSE check_nodes(nodes, i + 1)

check_node(node) ==
    CASE node.kind = "ExpressionStmt" -> check_node(node.expr)
      [] node.kind = "IfStmt" ->
            check_nodes(<< node.condition, node.then_branch >> \o node.else_branch, 1)
      [] node.kind = "ForeachStmt" -> check_nodes(<< node.array, node.body >>, 1)
      [] node.kind = "EchoStmt" -> check_nodes(node.expressions, 1)
      [] node.kind = "BinaryExpr" -> check_nodes(<< node.left, node.right >>, 1)
      [] node.kind = "FunctionCall" ->
            LET args == check_nodes(node.args, 1)
            IN IF args # NoError THEN args
               ELSE IF node.name \in BuiltIns THEN NoError
                    ELSE type_error("Undefined function", node.name)
      [] OTHER -> NoError

check_program(node) ==
    IF node.kind = "Program"
    THEN check_nodes(node.statements, 1)
    ELSE type_error("Expected program", "")

(***************************************************************************)
(* compile_file (src/src/lib.rs), one action per phase.  compile.ran lists *)
(* the phases that have run with the error each returned; the generator    *)
(* runs through the actions of generate above and shows in calls.          *)
(***************************************************************************)
File(readable, source) == [readable |-> readable, source |-> source]

Compiled(instructions) == [tag |-> "Ok", instructions |-> instructions, error |-> NoError]
Failed(error) == [tag |-> "Err", instructions |-> << >>, error |-> error]
Ran(phase, error) == Append(compile.ran, [phase |-> phase, error |-> error])

\* A ? that never returns early.
question_mark_goes_on(error) == FALSE

\* The ? after a phase: whether compile_file returns the phase's error.
question_mark(error) == error # NoError

BeyondCompile == UNCHANGED << codegen_vars, asm_vars, machine >>

\* The step of compile_file after a phase returned error: out through ?, or
\* on to the next phase with what the phase produced.
After(phase, error, next) ==
    IF question_mark(error)
    THEN [next EXCEPT !.pc = "returned", !.ran = Ran(phase, error),
                      !.result = Failed(error)]
    ELSE [next EXCEPT !.ran = Ran(phase, error)]

compile_file(file) ==
    /\ compile.pc = "idle"
    /\ compile' = [compile EXCEPT !.pc = "read_to_string", !.file = file]
    /\ BeyondCompile

read_to_string ==
    /\ compile.pc = "read_to_string"
    /\ compile' = After("read_to_string",
                        IF compile.file.readable THEN NoError ELSE IoError("NotFound"),
                        [compile EXCEPT !.pc = "tokenize"])
    /\ BeyondCompile

compile_tokenize ==
    /\ compile.pc = "tokenize"
    /\ LET lexed == tokenize(compile.file.source)
       IN compile' = After("tokenize", lexed.error,
                           [compile EXCEPT !.pc = "parse_program",
                                           !.tokens = lexed.tokens])
    /\ BeyondCompile

compile_parse_program ==
    /\ compile.pc = "parse_program"
    /\ LET parsed == parse_program(compile.tokens)
       IN compile' = After("parse_program", parsed.error,
                           [compile EXCEPT !.pc = "check_program",
                                           !.ast = parsed.node])
    /\ BeyondCompile

compile_check_program ==
    /\ compile.pc = "check_program"
    /\ compile' = After("check_program", check_program(compile.ast[1]),
                        [compile EXCEPT !.pc = "generate"])
    /\ BeyondCompile

\* CodeGenerator::new() and codegen.generate(&ast), up to generate_node.
compile_generate ==
    /\ compile.pc = "generate"
    /\ calls = << >>
    /\ generate(compile.ast[1])

\* codegen.generate(&ast)? and Ok(instructions).
compile_file_return ==
    /\ compile.pc = "generate"
    /\ calls # << >>
    /\ LastCall.result.tag # "Pending"
    /\ compile' =
          [compile EXCEPT
              !.pc = "returned",
              !.result = IF LastCall.result.tag = "Ok"
                         THEN Compiled(LastCall.result.instructions)
                         ELSE Failed(CodeGenError(LastCall.result.message))]
    /\ BeyondCompile

\* The sources compiled: conditionals without else, with else, with else if
\* and with elseif, calls of a built-in and of an undefined function, a
\* foreach, an empty program, and sources with a syntax or lexical error.
Cond == << Kw("LeftParen"), VarTok("a"), Kw("LessThan"), IntTok(1), Kw("RightParen") >>
EchoOne == << Kw("Echo"), IntTok(1), Kw("Semicolon") >>
EchoA == << Kw("Echo"), VarTok("a"), Kw("Semicolon") >>
IfSource == << Kw("If") >> \o Cond \o EchoOne
IfElseSource == IfSource \o << Kw("Else") >> \o EchoA
ElseThenIfSource == IfSource \o << Kw("Else") >> \o IfSource \o << Kw("Else") >> \o EchoA
ElseIfSource == IfSource \o << Kw("ElseIf") >> \o Cond \o EchoA
ElseIfElseSource == ElseIfSource \o << Kw("Else") >> \o EchoOne
\* "elseif ((a < 1) echo a;": one more parenthesis than the grammar has.
ElseIfExtraParenSource == IfSource \o << Kw("ElseIf"), Kw("LeftParen") >> \o Cond \o EchoA
CallSource(name) ==
    << IdTok(name), Kw("LeftParen"), VarTok("a"), Kw("RightParen"), Kw("Semicolon") >>
ForeachSource ==
    << Kw("Foreach"), Kw("LeftParen"), VarTok("a"), Kw("As"), VarTok("v"),
       Kw("RightParen") >> \o EchoOne

Sources ==
    {<< >>, IfSource, IfElseSource, ElseThenIfSource, ElseIfSource, ElseIfElseSource,
     ElseIfExtraParenSource, CallSource("strlen"), CallSource("f"),
     << IdTok("f"), Kw("LeftParen"), Kw("RightParen"), Kw("Semicolon") >>,
     IfSource \o CallSource("f"), ForeachSource, EchoA \o ForeachSource,
     IfSource \o << Kw("Else") >> \o ForeachSource,
     << Kw("Echo"), IntTok(1) >>, << Kw("If"), VarTok("a") >>,
     << Kw("Else") >>, << Kw("ElseIf") >> \o Cond \o EchoA,
     EchoOne \o << Invalid >>, << Invalid >> \o IfSource}

Files == {File(FALSE, << >>)} \cup {File(TRUE, source) : source \in Sources}

\* One call of compile_file, for every file of the family.
NextCompile ==
    \/ \E file \in Files : compile_file(file)
    \/ read_to_string
    \/ compile_tokenize
    \/ compile_parse_program
    \/ compile_check_program
    \/ compile_generate
    \/ generate_node_Program
    \/ generate_node_ExpressionStmt
    \/ generate_node_IfStmt
    \/ generate_node_ForeachStmt
    \/ generate_node_EchoStmt
    \/ generate_node_BinaryExpr
    \/ generate_node_Variable
    \/ generate_node_FunctionCall
    \/ generate_node_Literal
    \/ generate_return
    \/ compile_file_return

SpecCompile == Init /\ [][NextCompile]_vars

(***************************************************************************)
(* Syntactic facts about a tree, used to state the properties.             *)
(***************************************************************************)
\* The expression holds an assignment whose left side is not a variable, in a
\* place generation reaches.
RECURSIVE HasBadAssign(_)
HasBadAssign(e) ==
    CASE e.kind = "BinaryExpr" ->
            IF e.op = "Assign"
            THEN e.left.kind # "Variable" \/ HasBadAssign(e.right)
            ELSE HasBadAssign(e.left) \/ HasBadAssign(e.right)
      [] e.kind = "UnaryExpr" -> HasBadAssign(e.expr)
      [] e.kind = "FunctionCall" -> \E i \in 1..Len(e.args) : HasBadAssign(e.args[i])
      [] e.kind = "ArrayLiteral" ->
            \E i \in 1..Len(e.elements) :
                \/ HasBadAssign(e.elements[i].item)
                \/ e.elements[i].key # None /\ HasBadAssign(e.elements[i].key[1])
      [] OTHER -> FALSE

\* The statement holds a ReturnStmt outside every nested function declaration.
RECURSIVE HasOwnReturn(_)
HasOwnReturn(s) ==
    CASE s.kind = "ReturnStmt" -> TRUE
      [] s.kind \in {"Program", "BlockStmt"} ->
            \E i \in 1..Len(s.statements) : HasOwnReturn(s.statements[i])
      [] s.kind = "IfStmt" ->
            \/ HasOwnReturn(s.then_branch)
            \/ s.else_branch # None /\ HasOwnReturn(s.else_branch[1])
      [] s.kind = "WhileStmt" -> HasOwnReturn(s.body)
      [] s.kind = "ForStmt" ->
            \/ HasOwnReturn(s.body)
            \/ s.init # None /\ HasOwnReturn(s.init[1])
      [] OTHER -> FALSE

IsJump(instr) == instr.op \in {"Jump", "JumpIfFalse", "JumpIfTrue"}

\* Every jump of instrs targets the Label carrying its own index in instrs, or
\* the one-past-end index.
JumpsResolved(instrs) ==
    \A i \in 1..Len(instrs) :
        IsJump(instrs[i]) =>
            \/ instrs[i].n = Len(instrs)
            \/ /\ instrs[i].n < Len(instrs)
               /\ instrs[instrs[i].n + 1] = Label(instrs[i].n)

\* The instructions whose stack effect the stack-balance contract spells out.
HasStatedEffect(instrs) ==
    \A i \in 1..Len(instrs) : instrs[i].op \notin {"Call", "Return"}

\* The 0-based index of the first JumpIfFalse of instrs: for a conditional or
\* loop generated at index 0 that is its own, since the code of a condition
\* holds no jump.
FirstJumpIfFalse(instrs) ==
    CHOOSE j \in 0..Len(instrs) - 1 :
        /\ instrs[j + 1].op = "JumpIfFalse"
        /\ \A k \in 0..j - 1 : instrs[k + 1].op # "JumpIfFalse"

Done(c) == c.result.tag # "Pending"
Succeeded(c) == c.result.tag = "Ok"

(***************************************************************************)
(* Properties.                                                             *)
(***************************************************************************)

\* C1: in every sequence generate has returned and in every Function of the
\* function table, each Jump, JumpIfFalse and JumpIfTrue targets an index of
\* its own sequence that holds the Label carrying that index (or the
\* one-past-end index).
C1_JumpTargetsAreLabels ==
    /\ \A i \in 1..Len(calls) :
          Succeeded(calls[i]) => JumpsResolved(calls[i].result.instructions)
    /\ \A name \in DOMAIN functions : JumpsResolved(functions[name].instructions)

\* A returned sequence with jumps, declared after instructions were emitted,
\* next to a stored function with jumps of its own.
C1_Witness ==
    /\ calls # << >>
    /\ Succeeded(LastCall)
    /\ LastCall.node.kind = "Program"
    /\ \E i \in 1..Len(LastCall.result.instructions) :
          LastCall.result.instructions[i].op = "Jump"
    /\ \E name \in DOMAIN functions :
          \E i \in 1..Len(functions[name].instructions) :
              /\ functions[name].instructions[i].op = "Jump"
              /\ functions[name].instructions[i].n > 0

\* C2: every statement node generated as the root leaves the evaluation stack
\* as it found it: every path through the returned sequence has net effect 0
\* under the stack effects of the native lowering.
C2_StatementsLeaveNothing ==
    \A i \in 1..Len(calls) :
        (/\ Succeeded(calls[i])
         /\ calls[i].node.kind \in StatementKinds
         /\ HasStatedEffect(calls[i].result.instructions))
            => Balanced(calls[i].result.instructions, 0)

\* C3: every expression node generated as the root leaves exactly one value:
\* every path through the returned sequence has net effect +1 under the stack
\* effects of the native lowering.
C3_ExpressionsLeaveOne ==
    \A i \in 1..Len(calls) :
        (/\ Succeeded(calls[i])
         /\ calls[i].node.kind \in ExpressionKinds
         /\ HasStatedEffect(calls[i].result.instructions))
            => Balanced(calls[i].result.instructions, 1)

\* C4: a call of generate on a used generator gives the caller the same
\* result and the same function table as a call on a new generator for the
\* same tree.
C4_RepeatedCallsIndependent ==
    \A i, j \in 1..Len(calls) :
        (calls[i].node = calls[j].node /\ calls[i].fresh
            /\ Done(calls[i]) /\ Done(calls[j]))
            => /\ calls[i].result = calls[j].result
               /\ calls[i].functions = calls[j].functions

\* C5: when the while arm finishes, the sequence holds Label(s) at the saved
\* loop-start index s, the patched JumpIfFalse(e) at the saved index after the
\* condition code, Jump(s) as its last instruction but one and Label(e) as its
\* last, where e is the index right after the back-jump; the condition and
\* body code in between are as they were generated.  The sequence returned
\* for a while statement has this shape with s = 0.
C5_WhileShape ==
    [][/\ (InArm("WhileStmt") /\ top.pc = 2) =>
             LET s == top.a
                 j == top.b
                 n == Len(current_instructions')
                 e == n - 1
             IN /\ n = len + 2
                /\ s < j /\ j < e - 1
                /\ current_instructions'[s + 1] = Label(s)
                /\ current_instructions'[j + 1] = JumpIfFalse(e)
                /\ current_instructions'[e] = Jump(s)
                /\ current_instructions'[e + 1] = Label(e)
                /\ current_instructions[j + 1] = JumpIfFalse(0)
                /\ \A k \in 1..len : k # j + 1 =>
                      current_instructions'[k] = current_instructions[k]
       /\ \A i \in 1..Len(calls') :
             (Succeeded(calls'[i]) /\ calls'[i].node.kind = "WhileStmt") =>
                 LET instrs == calls'[i].result.instructions
                     e == Len(instrs) - 1
                 IN /\ e >= 3
                    /\ instrs[1] = Label(0)
                    /\ instrs[FirstJumpIfFalse(instrs) + 1] = JumpIfFalse(e)
                    /\ instrs[e] = Jump(0)
                    /\ instrs[e + 1] = Label(e)]_vars

\* A loop generated inside a conditional, so that its start index is not 0.
C5_Witness ==
    /\ calls # << >>
    /\ Succeeded(LastCall)
    /\ LastCall.node = IfStmt(LessA, WhileStmt(LessA, EchoStmt(<< VarA >>)), None)
    /\ LastCall.result.instructions[5] = Label(4)
    /\ LastCall.result.instructions[12] = Jump(4)

\* C6: when the if arm finishes without an else branch, the JumpIfFalse at
\* the saved index after the condition code targets the index right after the
\* last instruction of the then-branch, the Label carrying that index is placed
\* there, and the rest of the sequence is as it was generated.  In the
\* sequence returned for such a conditional the first JumpIfFalse targets the
\* last index, which holds its Label.
C6_IfWithoutElseShape ==
    [][/\ (InArm("IfStmt") /\ top.pc = 2 /\ top.node.else_branch = None) =>
             LET j == top.a
                 n == Len(current_instructions')
             IN /\ n = len + 1
                /\ j < len
                /\ current_instructions'[j + 1] = JumpIfFalse(len)
                /\ current_instructions'[n] = Label(len)
                /\ current_instructions[j + 1] = JumpIfFalse(0)
                /\ \A k \in 1..len : k # j + 1 =>
                      current_instructions'[k] = current_instructions[k]
       /\ \A i \in 1..Len(calls') :
             (/\ Succeeded(calls'[i])
              /\ calls'[i].node.kind = "IfStmt"
              /\ calls'[i].node.else_branch = None) =>
                 LET instrs == calls'[i].result.instructions
                     e == Len(instrs) - 1
                 IN /\ e >= 2
                    /\ instrs[FirstJumpIfFalse(instrs) + 1] = JumpIfFalse(e)
                    /\ instrs[e + 1] = Label(e)]_vars

\* A conditional whose then-branch is a conditional with an empty then-branch.
C6_Witness ==
    /\ calls # << >>
    /\ Succeeded(LastCall)
    /\ LastCall.node = IfStmt(LessA, IfStmt(LessA, BlockStmt(<< >>), None), None)
    /\ LastCall.result.instructions[4] = JumpIfFalse(9)
    /\ LastCall.result.instructions[8] = JumpIfFalse(8)

\* C7: generating a ForeachStmt fails.  Once its iterated expression has been
\* generated the call ends with the foreach error and returns no sequence; a
\* call whose root is a ForeachStmt never succeeds, and it reports the error
\* of the iterated expression when that expression has one.
C7_ForeachFails ==
    [][/\ (InArm("ForeachStmt") /\ top.pc = 1) =>
             /\ stack' = << >>
             /\ calls'[Len(calls')].result = Err(ForeachMessage)
             /\ calls'[Len(calls')].result.instructions = << >>
       /\ \A i \in 1..Len(calls') :
             (Done(calls'[i]) /\ calls'[i].node.kind = "ForeachStmt") =>
                 calls'[i].result =
                     IF HasBadAssign(calls'[i].node.array)
                     THEN Err(AssignMessage)
                     ELSE Err(ForeachMessage)]_vars

\* A failed call on a foreach over a well-formed expression, and in the same
\* family one over an expression that fails itself.
C7_Witness ==
    /\ calls # << >>
    /\ LastCall.node = ForeachStmt(FunctionCall("f", << >>), "v", EchoStmt(<< VarA >>))
    /\ LastCall.result = Err(ForeachMessage)
    /\ current_instructions = << Call("f", 0) >>

\* C8: an assignment whose left operand is not a Variable fails with the
\* assignment error as soon as its arm is entered: nothing is emitted for it,
\* its right-hand side is never generated, and the call returns the error.
C8_BadAssignFails ==
    [][/\ (/\ InArm("BinaryExpr")
           /\ top.node.op = "Assign"
           /\ top.node.left.kind # "Variable") =>
             /\ top.pc = 0
             /\ stack' = << >>
             /\ calls'[Len(calls')].result = Err(AssignMessage)
             /\ current_instructions' = current_instructions
             /\ functions' = functions
       /\ \A i \in 1..Len(calls') :
             (/\ Done(calls'[i])
              /\ calls'[i].node.kind = "BinaryExpr"
              /\ calls'[i].node.op = "Assign"
              /\ calls'[i].node.left.kind # "Variable") =>
                 calls'[i].result = Err(AssignMessage)]_vars

\* A failed assignment to a function call, reached after other instructions
\* had been emitted; none was added for its right-hand side.
C8_Witness ==
    /\ calls # << >>
    /\ LastCall.node = BinaryExpr("Add", One, BadAssignCall)
    /\ LastCall.result = Err(AssignMessage)
    /\ current_instructions = << PushInt(1) >>

\* C9: when the function arm stores a Function, its sequence is the generated
\* body followed by PushNull, Return if the body holds no return statement of
\* its own (one inside a nested function declaration does not count), and the
\* generated body alone if it holds one.
C9_ImplicitReturn ==
    [][(InArm("FunctionDecl") /\ top.pc = 1) =>
          /\ top.node.name \in DOMAIN functions'
          /\ functions'[top.node.name].instructions =
                IF HasOwnReturn(top.node.body)
                THEN current_instructions
                ELSE current_instructions \o << PushNull, Return >>
          /\ HasOwnReturn(top.node.body) <=>
                \E k \in 1..len : current_instructions[k] = Return]_vars

\* A function whose only return sits in a nested declaration, next to that
\* nested function, whose own return is not its last instruction.
C9_Witness ==
    /\ calls # << >>
    /\ Succeeded(LastCall)
    /\ LastCall.node.kind = "BlockStmt"
    /\ DOMAIN functions = {"f", "g"}
    /\ functions["f"].instructions = << PushNull, Return >>
    /\ Len(functions["g"].instructions) = 7
    /\ functions["g"].instructions[6] = Return
    /\ functions["g"].instructions[7] = Label(6)

\* C10: two calls of generate on the same tree that both return a sequence
\* return the same sequence, on two new generators and on one generator alike.
C10_SameTreeSameSequence ==
    \A i, j \in 1..Len(calls) :
        (calls[i].node = calls[j].node /\ Succeeded(calls[i]) /\ Succeeded(calls[j]))
            => calls[i].result.instructions = calls[j].result.instructions

\* The same tree generated on a new generator, on a second new generator and
\* then again on that second generator.
C10_Witness ==
    /\ Len(calls) = 3
    /\ \A i \in 1..3 : Succeeded(calls[i]) /\ calls[i].node = calls[1].node
    /\ calls[1].result.instructions # << >>
    /\ calls[1].fresh /\ calls[2].fresh /\ ~calls[3].fresh


\* The entries of texts, and the lines a returned text holds for the
\* instruction at index k of the slice it was lowered from.
ReturnedTexts == {texts[i] : i \in 1..Len(texts)}
LinesOf(e, k) == SubSeq(e.text, e.marks[k + 1] + 1, e.marks[k + 2])
IndicesOf(e, ops) == {k \in 0..(Len(e.instructions) - 1) : e.instructions[k + 1].op \in ops}
\* The frame offsets and the literal-pool indices a group of lines refers to.
FrameOffsets(lines) ==
    {-lines[j].d.n : j \in {i \in 1..Len(lines) : lines[i].d.k = "mem" /\ lines[i].d.r = "rbp"}}
    \cup {-lines[j].s.n : j \in {i \in 1..Len(lines) : lines[i].s.k = "mem" /\ lines[i].s.r = "rbp"}}
PoolIndices(lines) ==
    {lines[j].s.n : j \in {i \in 1..Len(lines) : /\ lines[i].op = "lea"
                                                  /\ lines[i].s.k = "sym"
                                                  /\ lines[i].s.r = "str"}}
\* The number of distinct names LoadVar and StoreVar have named up to the
\* first reference to name.
FirstSeenRank(e, name) ==
    LET refs == IndicesOf(e, {"LoadVar", "StoreVar"})
        first == CHOOSE k \in refs :
                     /\ e.instructions[k + 1].name = name
                     /\ \A j \in refs : e.instructions[j + 1].name = name => k <= j
    IN Cardinality({e.instructions[j + 1].name : j \in {i \in refs : i <= first}})

\* C11: AsmGenerator::generate is a function of its argument alone: two calls
\* on one generator that are given the same slice return the same text,
\* whatever the generator lowered before each of them.
C11_TextDependsOnSliceOnly ==
    \A i, j \in 1..Len(texts) :
        texts[i].instructions = texts[j].instructions => texts[i] = texts[j]

\* A slice with literals, variables and Echo labels lowered first by the new
\* generator and again after a different slice with literals and labels.
C11_Witness ==
    /\ Len(texts) = 3
    /\ texts[1].instructions = ScenarioA
    /\ texts[3].instructions = ScenarioA
    /\ texts[2].instructions = << PushString("s"), Echo, PushString("s"), EchoLine >>
    /\ texts[1].text = texts[3].text

\* C12: in a returned text the n-th distinct name met by LoadVar or StoreVar,
\* in the order of the slice, is addressed at rbp - 8 * n by every instruction
\* that names it, and two names never share an offset.
C12_OffsetsInFirstSeenOrder ==
    \A e \in ReturnedTexts :
        \A k \in IndicesOf(e, {"LoadVar", "StoreVar"}) :
            /\ FrameOffsets(LinesOf(e, k))
                   = {8 * FirstSeenRank(e, e.instructions[k + 1].name)}
            /\ \A j \in IndicesOf(e, {"LoadVar", "StoreVar"}) :
                   e.instructions[j + 1].name # e.instructions[k + 1].name
                       => FrameOffsets(LinesOf(e, j)) \cap FrameOffsets(LinesOf(e, k)) = {}

\* Three names, the first of them met by a LoadVar and met again later.
C12_Witness ==
    \E e \in ReturnedTexts :
        /\ e.instructions
               = << LoadVar("b"), StoreVar("a"), LoadVar("b"), StoreVar("c"), LoadVar("a") >>
        /\ FrameOffsets(LinesOf(e, 0)) = {8}
        /\ FrameOffsets(LinesOf(e, 2)) = {8}
        /\ FrameOffsets(LinesOf(e, 3)) = {24}
        /\ FrameOffsets(LinesOf(e, 4)) = {16}

\* C13: every PushString refers to one literal-pool index of its own; the
\* pool entry at that index, and the .string emitted under the label of that
\* index, hold its literal; and of two PushString occurrences the later one
\* refers to the larger index, also when both carry the same literal.
C13_PoolIndexPerOccurrence ==
    \A e \in ReturnedTexts :
        \A k \in IndicesOf(e, {"PushString"}) :
            /\ Cardinality(PoolIndices(LinesOf(e, k))) = 1
            /\ \A n \in PoolIndices(LinesOf(e, k)) :
                   /\ n < Len(e.pool)
                   /\ e.pool[n + 1] = e.instructions[k + 1].name
                   /\ \E j \in 1..(Len(e.text) - 1) :
                          /\ e.text[j] = LabelDef(Sym("str", n))
                          /\ e.text[j + 1] = Ins1(".string", Escaped(e.instructions[k + 1].name))
                   /\ \A j \in IndicesOf(e, {"PushString"}) :
                          j > k => \A m \in PoolIndices(LinesOf(e, j)) : m > n

\* The same literal pushed twice, and a Concat between two PushStrings.
C13_Witness ==
    /\ \E e \in ReturnedTexts :
           /\ e.instructions = << PushString("s"), Echo, PushString("s"), EchoLine >>
           /\ PoolIndices(LinesOf(e, 0)) = {0}
           /\ PoolIndices(LinesOf(e, 2)) = {1}
    /\ \E e \in ReturnedTexts :
           /\ e.instructions
                  = << PushString("a"), PushString("b"), Concat, PushString("a"), Echo >>
           /\ PoolIndices(LinesOf(e, 3)) = {3}


\* The processor is inside the lines of an instruction of one of the given
\* kinds, entered with a value the text or a callee put on the stack.
Inside(ops) ==
    /\ texts # << >>
    /\ machine.status = "running"
    /\ InCode(Text, machine.ip)
    /\ InstrOf(machine.ip) # -1
    /\ TextSlice[InstrOf(machine.ip) + 1].op \in ops
\* The step takes the processor out of those lines at their end.
LeavesAtEnd == 
    /\ machine'.status = "running"
    /\ machine'.ip = TextMarks[InstrOf(machine.ip) + 2] + 1
    /\ machine.ip = TextMarks[InstrOf(machine.ip) + 2]
\* The print event of Echo for the value v.
EchoEvent(mem, v) ==
    IF v >= 100000 THEN [format |-> "%s", value |-> v, bytes |-> StringAt(mem, v)]
    ELSE [format |-> "%d", value |-> v, bytes |-> << >>]
Newline == [format |-> "putchar", value |-> 10, bytes |-> << 10 >>]

\* C14: the lines of Echo and of EchoLine pop one value; the one printf call
\* they make prints that value, with %s if it is at least 100000 and with %d
\* otherwise; when control leaves them the stack is one value shorter and the
\* output has grown by that one event, followed by one newline for EchoLine
\* and by nothing for Echo.
C14_EchoStep ==
    (Inside({"Echo", "EchoLine"}) /\ machine.at.rsp \in DOMAIN machine.mem /\ machine' # machine)
        => LET event == EchoEvent(machine.mem, machine.at.top)
               line == TextSlice[InstrOf(machine.ip) + 1].op = "EchoLine"
           IN /\ Text[machine.ip] = Ins1("call", Name("printf"))
                     => /\ machine'.out = Append(machine.at.out, event)
                        /\ machine.reg["rsp"] = machine.at.rsp + 8
              /\ LeavesAtEnd
                     => /\ machine'.reg["rsp"] = machine.at.rsp + 8
                        /\ machine'.out = machine.at.out \o << event >>
                                              \o (IF line THEN << Newline >> ELSE << >>)
C14_EchoPrintsByThreshold == [][C14_EchoStep]_vars

\* A string and then the number 100000 went through EchoLine: the string
\* with its newline, the number in the string branch.
C14_Witness ==
    /\ texts # << >>
    /\ TextSlice = << PushString("s"), EchoLine, PushInt(100000), EchoLine >>
    /\ Len(machine.out) = 3
    /\ machine.out[1] = [format |-> "%s", value |-> SymbolAddress(Text, Sym("str", 0)),
                         bytes |-> << 115 >>]
    /\ machine.out[2] = Newline
    /\ machine.out[3].format = "%s"
    /\ machine.out[3].value = 100000

\* C15: when control leaves the lines of Concat the two operands are gone
\* and the one value pushed is the address of a string that is the bytes of
\* the first operand followed by the bytes of the second.
C15_ConcatStep ==
    (Inside({"Concat"}) /\ machine' # machine /\ LeavesAtEnd)
        => /\ machine'.reg["rsp"] = machine.at.rsp + 8
           /\ StringAt(machine'.mem, Peek(machine', machine'.reg["rsp"]))
                  = StringAt(machine'.mem, machine.at.second)
                        \o StringAt(machine'.mem, machine.at.top)
C15_ConcatPushesConcatenation == [][C15_ConcatStep]_vars

\* C16: generate goes through every slice to its end; an instruction no arm
\* of process_instruction names gets one line, a comment, and the processor
\* passes that line with its registers, memory, flags and output unchanged.
C16_UnimplementedStep ==
    /\ \A e \in ReturnedTexts :
           /\ Len(e.marks) = Len(e.instructions) + 1
           /\ \A k \in 0..(Len(e.instructions) - 1) :
                  e.instructions[k + 1].op \notin HasLowering
                      => /\ Len(LinesOf(e, k)) = 1
                         /\ IsComment(LinesOf(e, k)[1])
    /\ (Lowering /\ lowering.i < Len(lowering.instructions))
           => ENABLED process_instruction
    /\ (Inside({"Call", "Return"}) /\ machine' # machine)
           => machine' = [machine EXCEPT !.ip = @ + 1, !.at = machine'.at]
C16_UnimplementedIsOneComment == [][C16_UnimplementedStep]_vars

\* The processor has passed the comment of Call and printed the value that
\* was on the stack before it, and has passed the comment of Return.
C16_Witness ==
    /\ texts # << >>
    /\ TextSlice = << PushInt(1), Call("f", 1), Echo, Return >>
    /\ machine.status = "running"
    /\ machine.ip = TextMarks[5] + 1
    /\ machine.out = << [format |-> "%d", value |-> 1, bytes |-> << >>] >>

\* C17: in every returned text the lines of add_footer follow the lines of
\* the last instruction and come before .data, so the processor never runs
\* out of the code section, and when main has returned rax is 0.
C17_EpilogueEndsTheCode ==
    /\ \A e \in ReturnedTexts :
           LET end == e.marks[Len(e.marks)]
           IN /\ SubSeq(e.text, end + 1, end + Len(add_footer)) = add_footer
              /\ end + Len(add_footer) < DataStart(e.text)
    /\ machine.status = "running" => InCode(Text, machine.ip)
    /\ machine.status = "returned" => machine.reg["rax"] = 0

\* C18: the run of the text of Scenario A, once over, has printed the
\* string "sum: " and then the integer 30, and nothing else.
C18_ScenarioAPrints ==
    (texts # << >> /\ TextSlice = ScenarioA /\ machine.status \in {"returned", "fault", "rejected"})
        => /\ machine.status = "returned"
           /\ machine.out = << [format |-> "%s", value |-> SymbolAddress(Text, Sym("str", 0)),
                                bytes |-> Bytes("sum: ")],
                               [format |-> "%d", value |-> 30, bytes |-> << >>] >>


\* The phases of compile_file before the generator, in the order of the code.
Phases == << "read_to_string", "tokenize", "parse_program", "check_program" >>

\* C19: compile_file runs reading, lexing, parsing and type checking in that
\* order and then the generator.  A phase that returns an error is the last
\* one to run: compile_file has then returned that error as it is and the
\* generator was never called.  The generator is called once, on the parsed
\* tree, only after all the phases before it succeeded; compile_file returns
\* Ok only with the sequence the generator returned, and when the generator
\* fails it returns the generator's error.
C19_FirstFailureEndsCompilation ==
    LET n == Len(compile.ran)
    IN /\ n <= Len(Phases)
       /\ \A i \in 1..n : compile.ran[i].phase = Phases[i]
       /\ \A i \in 1..n : compile.ran[i].error # NoError =>
             /\ i = n
             /\ compile.pc = "returned"
             /\ compile.result.tag = "Err"
             /\ compile.result.error = compile.ran[i].error
             /\ compile.result.instructions = << >>
             /\ calls = << >>
             /\ stack = << >>
       /\ calls # << >> =>
             /\ n = Len(Phases)
             /\ Len(calls) = 1
             /\ calls[1].node = compile.ast[1]
       /\ compile.result.tag = "Ok" =>
             /\ calls # << >>
             /\ Succeeded(LastCall)
             /\ compile.result.instructions = LastCall.result.instructions
       /\ (compile.pc = "returned" /\ calls # << >>) =>
             /\ Done(LastCall)
             /\ ~Succeeded(LastCall) =>
                   /\ compile.result.tag = "Err"
                   /\ compile.result.error.variant = "CodeGenError"
                   /\ compile.result.error.message = LastCall.result.message

\* A program that calls an undefined function after a conditional: the type
\* checker rejected it, the TypeError came back and the generator never ran.
C19_Witness ==
    /\ compile.pc = "returned"
    /\ compile.file = File(TRUE, IfSource \o CallSource("f"))
    /\ Len(compile.ran) = 4
    /\ compile.result.tag = "Err"
    /\ compile.result.error = [variant |-> "TypeError", message |-> "Undefined function",
                               detail |-> "f"]
    /\ calls = << >>
    /\ current_instructions = << >>

\* The well-formed sources whose conditional has an else branch, written with
\* else, with else if, and with elseif.
ElseSources == {IfElseSource, ElseThenIfSource, ElseIfSource, ElseIfElseSource}

\* The shape of the code of one conditional with an else branch generated at
\* index 0: its JumpIfFalse targets e, Jump(a) is right before Label(e) at e,
\* and Label(a) at a ends the sequence.
ElseShape(instrs) ==
    /\ \E k \in 1..Len(instrs) : instrs[k].op = "JumpIfFalse"
    /\ LET j == FirstJumpIfFalse(instrs)
           e == instrs[j + 1].n
           a == Len(instrs) - 1
       IN /\ j < e - 1
          /\ e < a
          /\ instrs[e + 1] = Label(e)
          /\ instrs[e] = Jump(a)
          /\ instrs[a + 1] = Label(a)

\* C20: a conditional with an else branch compiles to condition code,
\* JumpIfFalse(e), then-branch code, Jump(a), Label(e) at index e, else-branch
\* code and Label(a) at index a, also when the else branch is a conditional
\* written with elseif.
C20_ElseIfHasElseShape ==
    (/\ compile.pc = "returned"
     /\ compile.file.readable
     /\ compile.file.source \in ElseSources) =>
        /\ compile.result.tag = "Ok"
        /\ ElseShape(compile.result.instructions)


\* C21: the for arm emits the initializer code before Label(s) at the loop
\* start s, then the condition code or PushBool(true) when there is no
\* condition, the placeholder JumpIfFalse, the body code and the increment
\* code; when it finishes it appends Pop if there is an increment, then
\* Jump(s) and Label(e), and patches the JumpIfFalse to e, leaving the rest as
\* generated.  In the sequence returned for a for statement no jump leads
\* back into the initializer code before s, and the only jump to s is the
\* back-jump, which directly follows the increment code and its Pop.
C21_ForShape ==
    [][/\ (InArm("ForStmt") /\ top.pc = 0 /\ top.node.init # None) =>
             /\ current_instructions' = current_instructions
             /\ stack'[Len(stack')].node = top.node.init[1]
       /\ (/\ InArm("ForStmt")
           /\ (top.pc = 0 /\ top.node.init = None) \/ top.pc = 1) =>
             /\ current_instructions'[len + 1] = Label(len)
             /\ SubSeq(current_instructions', 1, len) = current_instructions
             /\ IF top.node.opt_condition = None
                THEN /\ Len(current_instructions') = len + 3
                     /\ current_instructions'[len + 2] = PushBool(TRUE)
                     /\ current_instructions'[len + 3] = JumpIfFalse(0)
                     /\ stack'[Len(stack')].node = top.node.body
                ELSE /\ Len(current_instructions') = len + 1
                     /\ stack'[Len(stack')].node = top.node.opt_condition[1]
       /\ (InArm("ForStmt") /\ top.pc = 2) =>
             /\ current_instructions' = Append(current_instructions, JumpIfFalse(0))
             /\ stack'[Len(stack')].node = top.node.body
       /\ (InArm("ForStmt") /\ top.pc = 3 /\ top.node.increment # None) =>
             /\ current_instructions' = current_instructions
             /\ stack'[Len(stack')].node = top.node.increment[1]
       /\ (/\ InArm("ForStmt")
           /\ (top.pc = 3 /\ top.node.increment = None) \/ top.pc = 4) =>
             LET s == top.a
                 j == top.b
                 n == Len(current_instructions')
                 e == n - 1
             IN /\ n = len + (IF top.pc = 4 THEN 3 ELSE 2)
                /\ s < j /\ j < e - 1
                /\ current_instructions'[s + 1] = Label(s)
                /\ current_instructions'[j + 1] = JumpIfFalse(e)
                /\ top.pc = 4 => current_instructions'[e - 1] = Pop
                /\ current_instructions'[e] = Jump(s)
                /\ current_instructions'[e + 1] = Label(e)
                /\ current_instructions[j + 1] = JumpIfFalse(0)
                /\ \A k \in 1..len : k # j + 1 =>
                      current_instructions'[k] = current_instructions[k]
       /\ \A i \in 1..Len(calls') :
             (Succeeded(calls'[i]) /\ calls'[i].node.kind = "ForStmt") =>
                 LET instrs == calls'[i].result.instructions
                     node == calls'[i].node
                     e == Len(instrs) - 1
                     s == instrs[e].n
                     j == FirstJumpIfFalse(instrs)
                 IN /\ e >= 3
                    /\ instrs[e] = Jump(s)
                    /\ instrs[e + 1] = Label(e)
                    /\ instrs[s + 1] = Label(s)
                    /\ (node.init = None) <=> (s = 0)
                    /\ s < j /\ j < e - 1
                    /\ instrs[j + 1] = JumpIfFalse(e)
                    /\ node.opt_condition = None =>
                          j = s + 2 /\ instrs[s + 2] = PushBool(TRUE)
                    /\ node.increment # None => instrs[e - 1] = Pop
                    /\ \A k \in 0..e :
                          IsJump(instrs[k + 1]) =>
                             /\ instrs[k + 1].n >= s
                             /\ instrs[k + 1].n = s => k = e - 1]_vars

\* A for loop with initializer, condition and increment: the initializer's
\* four instructions, Label(4), the condition, JumpIfFalse(16), the body, the
\* increment and its Pop, Jump(4), Label(16).
C21_Witness ==
    /\ calls # << >>
    /\ Succeeded(LastCall)
    /\ LastCall.node = ForStmt(Some(ExpressionStmt(AssignA)), Some(LessA), Some(AssignA),
                               EchoStmt(<< VarA >>))
    /\ LastCall.result.instructions[5] = Label(4)
    /\ LastCall.result.instructions[9] = JumpIfFalse(16)
    /\ LastCall.result.instructions[15] = Pop
    /\ LastCall.result.instructions[16] = Jump(4)
    /\ LastCall.result.instructions[17] = Label(16)


\* C22: the function arm sets the enclosing sequence aside and generates the
\* body into an empty one; when it finishes, the sequence is again what it was
\* when the arm started, and the table holds under the function's name a
\* Function with that name, the number of declared parameters and the body's
\* instructions, whose jumps target the labels at their own indices of that
\* sequence.  A call whose root is a function declaration returns the empty
\* sequence, and a declaration inside a conditional adds nothing to the code
\* of the conditional.
C22_FunctionDeclLeavesSequence ==
    [][/\ (InArm("FunctionDecl") /\ top.pc = 0) =>
             /\ current_instructions' = << >>
             /\ Len(stack') = Len(stack) + 1
             /\ stack'[Len(stack)].node = top.node
             /\ stack'[Len(stack)].saved = current_instructions
             /\ stack'[Len(stack')].node = top.node.body
       /\ (InArm("FunctionDecl") /\ top.pc = 1) =>
             /\ current_instructions' = top.saved
             /\ top.node.name \in DOMAIN functions'
             /\ functions'[top.node.name].name = top.node.name
             /\ functions'[top.node.name].param_count = Len(top.node.params)
             /\ SubSeq(functions'[top.node.name].instructions, 1, len) =
                   current_instructions
             /\ JumpsResolved(functions'[top.node.name].instructions)
       /\ \A i \in 1..Len(stack) :
             (i < Len(stack) /\ i <= Len(stack') /\ stack[i].node.kind = "FunctionDecl") =>
                 stack'[i].saved = stack[i].saved
       /\ \A i \in 1..Len(calls') :
             Succeeded(calls'[i]) =>
                 LET node == calls'[i].node
                     instrs == calls'[i].result.instructions
                 IN /\ node.kind = "FunctionDecl" => instrs = << >>
                    /\ (/\ node.kind = "IfStmt"
                        /\ node.else_branch = None
                        /\ node.then_branch.kind = "FunctionDecl") =>
                          /\ Len(instrs) >= 2
                          /\ instrs[Len(instrs) - 1].op = "JumpIfFalse"
                          /\ instrs[Len(instrs)].op = "Label"]_vars

\* A declaration with one parameter inside a conditional: the conditional's
\* code is its condition, JumpIfFalse(4) and Label(4), and the table holds the
\* body with its implicit return.
C22_Witness ==
    /\ calls # << >>
    /\ Succeeded(LastCall)
    /\ LastCall.node = IfStmt(LessA, FunctionDecl("f", << "p" >>, EchoStmt(<< VarA >>)), None)
    /\ LastCall.result.instructions =
          << LoadVar("a"), PushInt(1), Plain("Less"), JumpIfFalse(4), Label(4) >>
    /\ DOMAIN functions = {"f"}
    /\ functions["f"] =
          Function("f", 1, << LoadVar("a"), Plain("EchoLine"), PushNull, Return >>)


IsAssign(node) == node.kind = "BinaryExpr" /\ node.op = "Assign"

\* C23: the assignment arm with a Variable on the left generates the right
\* operand with the sequence untouched and, when that is done, appends
\* StoreVar(x) and LoadVar(x) for the variable x on the left.  The expression
\* statement arm appends Pop right behind the code of its expression, so in
\* the sequence returned for an assignment statement LoadVar(x) stands
\* directly before the final Pop and StoreVar(x) before that.
C23_AssignStoresThenReloads ==
    [][/\ (/\ InArm("BinaryExpr") /\ top.node.op = "Assign"
           /\ top.pc = 0 /\ top.node.left.kind = "Variable") =>
             /\ current_instructions' = current_instructions
             /\ stack'[Len(stack')].node = top.node.right
       /\ (InArm("BinaryExpr") /\ top.node.op = "Assign" /\ top.pc = 1) =>
             /\ top.node.left.kind = "Variable"
             /\ current_instructions' =
                   current_instructions \o
                       << StoreVar(top.node.left.name), LoadVar(top.node.left.name) >>
       /\ (InArm("ExpressionStmt") /\ top.pc = 1 /\ IsAssign(top.node.expr)) =>
             /\ len >= 2
             /\ current_instructions[len] = LoadVar(top.node.expr.left.name)
             /\ current_instructions' = Append(current_instructions, Pop)
       /\ \A i \in 1..Len(calls') :
             Succeeded(calls'[i]) =>
                 LET node == calls'[i].node
                     instrs == calls'[i].result.instructions
                     n == Len(instrs)
                 IN /\ IsAssign(node) =>
                          /\ n >= 3
                          /\ instrs[n - 1] = StoreVar(node.left.name)
                          /\ instrs[n] = LoadVar(node.left.name)
                    /\ (node.kind = "ExpressionStmt" /\ IsAssign(node.expr)) =>
                          /\ n >= 4
                          /\ instrs[n - 2] = StoreVar(node.expr.left.name)
                          /\ instrs[n - 1] = LoadVar(node.expr.left.name)
                          /\ instrs[n] = Pop]_vars

\* The statement "$a = 1;".
C23_Witness ==
    /\ calls # << >>
    /\ Succeeded(LastCall)
    /\ LastCall.node = ExpressionStmt(AssignA)
    /\ LastCall.result.instructions = << PushInt(1), StoreVar("a"), LoadVar("a"), Pop >>


\* The instruction the claim names for each binary operator other than Assign.
OperatorInstruction ==
    [op \in BinaryOps \ {"Assign"} |->
        CASE op = "Add" -> Plain("Add")
          [] op = "Subtract" -> Plain("Subtract")
          [] op = "Multiply" -> Plain("Multiply")
          [] op = "Divide" -> Plain("Divide")
          [] op = "Modulo" -> Plain("Modulo")
          [] op = "Equal" -> Plain("Equal")
          [] op = "NotEqual" -> Plain("NotEqual")
          [] op = "Less" -> Plain("Less")
          [] op = "LessEqual" -> Plain("LessEqual")
          [] op = "Greater" -> Plain("Greater")
          [] op = "GreaterEqual" -> Plain("GreaterEqual")
          [] op = "LogicalAnd" -> Plain("LogicalAnd")
          [] op = "LogicalOr" -> Plain("LogicalOr")
          [] op = "Concat" -> Plain("Concat")
          [] op = "ArrayAccess" -> Plain("ArrayGet")]

IsOperation(node) == node.kind = "BinaryExpr" /\ node.op # "Assign"

\* C24: the arm of a binary expression other than an assignment generates the
\* left operand first and the right operand second, adding nothing itself in
\* between, and then appends one instruction, the one of its operator
\* (ArrayGet for ArrayAccess).  The sequence returned for such an expression
\* ends with that instruction, begins with the code of the left operand and
\* has the code of the right operand directly before the operator instruction.
C24_LeftRightOperator ==
    [][/\ (InArm("BinaryExpr") /\ top.node.op # "Assign" /\ top.pc = 0) =>
             /\ current_instructions' = current_instructions
             /\ stack'[Len(stack')].node = top.node.left
       /\ (InArm("BinaryExpr") /\ top.node.op # "Assign" /\ top.pc = 1) =>
             /\ current_instructions' = current_instructions
             /\ stack'[Len(stack')].node = top.node.right
       /\ (InArm("BinaryExpr") /\ top.node.op # "Assign" /\ top.pc = 2) =>
             /\ current_instructions' =
                   Append(current_instructions, OperatorInstruction[top.node.op])
             /\ Len(stack') = Len(stack) - 1
       /\ \A i \in 1..Len(calls') :
             (Succeeded(calls'[i]) /\ IsOperation(calls'[i].node)) =>
                 LET node == calls'[i].node
                     instrs == calls'[i].result.instructions
                     n == Len(instrs)
                 IN /\ n >= 3
                    /\ instrs[n] = OperatorInstruction[node.op]
                    /\ node.left.kind = "Variable" => instrs[1] = LoadVar(node.left.name)
                    /\ node.left.kind = "IntLiteral" => instrs[1] = PushInt(node.left.value)
                    /\ node.right.kind = "IntLiteral" =>
                          instrs[n - 1] = PushInt(node.right.value)
                    /\ IsOperation(node.right) =>
                          instrs[n - 1] = OperatorInstruction[node.right.op]
                    /\ (node.left.kind \in {"Variable", "IntLiteral"}
                        /\ node.right.kind = "IntLiteral") => n = 3]_vars

\* ($a = 1) + ($a * 1): the left operand's three instructions, the right
\* operand's three, then Add.
C24_Witness ==
    /\ calls # << >>
    /\ Succeeded(LastCall)
    /\ LastCall.node = BinaryExpr("Add", AssignA, BinaryExpr("Multiply", VarA, One))
    /\ LastCall.result.instructions =
          << PushInt(1), StoreVar("a"), LoadVar("a"),
             LoadVar("a"), PushInt(1), Plain("Multiply"), Plain("Add") >>


\* The first instruction of the code of a variable or an integer literal,
\* which is all of its code.
AtomCode(node) ==
    IF node.kind = "Variable" THEN LoadVar(node.name) ELSE PushInt(node.value)
IsAtom(node) == node.kind \in {"Variable", "IntLiteral"}

\* C25: the call arm generates its arguments from the last to the first,
\* adding nothing itself in between, and then appends Call(f, n) with n the
\* number of arguments.  The sequence returned for a call ends with that one
\* Call, starts with the code of the last argument and has the code of the
\* first argument directly before the Call.
C25_ArgumentsInReverse ==
    [][/\ (InArm("FunctionCall") /\ top.a < Len(top.node.args)) =>
             /\ current_instructions' = current_instructions
             /\ stack'[Len(stack')].node =
                   top.node.args[Len(top.node.args) - top.a]
             /\ stack'[Len(stack)].a = top.a + 1
       /\ (InArm("FunctionCall") /\ top.a >= Len(top.node.args)) =>
             /\ top.a = Len(top.node.args)
             /\ current_instructions' =
                   Append(current_instructions, Call(top.node.name, Len(top.node.args)))
             /\ Len(stack') = Len(stack) - 1
       /\ \A i \in 1..Len(calls') :
             (Succeeded(calls'[i]) /\ calls'[i].node.kind = "FunctionCall") =>
                 LET node == calls'[i].node
                     args == node.args
                     instrs == calls'[i].result.instructions
                     n == Len(instrs)
                 IN /\ n >= 1 + Len(args)
                    /\ instrs[n] = Call(node.name, Len(args))
                    /\ \A k \in 1..n - 1 : instrs[k].op # "Call"
                    /\ args # << >> =>
                          /\ IsAtom(args[Len(args)]) => instrs[1] = AtomCode(args[Len(args)])
                          /\ IsAtom(args[1]) => instrs[n - 1] = AtomCode(args[1])]_vars

\* g($a, 1): the code of 1, then the code of $a, then Call(g, 2).
C25_Witness ==
    /\ calls # << >>
    /\ Succeeded(LastCall)
    /\ LastCall.node = FunctionCall("g", << VarA, One >>)
    /\ LastCall.result.instructions = << PushInt(1), LoadVar("a"), Call("g", 2) >>


\* The bytes the entry procedure reserves for variables: the operand of the
\* first "sub rsp, n" of the text.
ReservedForVariables(text) ==
    LET first == CHOOSE i \in 1..Len(text) :
                    /\ text[i].op = "sub" /\ text[i].d = Reg("rsp")
                    /\ \A k \in 1..i - 1 : ~(text[k].op = "sub" /\ text[k].d = Reg("rsp"))
    IN text[first].s.n

\* C26: every offset in the frame offset table is at most the number of bytes
\* the header of the text reserves for variables.
C26_OffsetsWithinFrame ==
    \A name \in DOMAIN variables :
        variables[name] <= ReservedForVariables(asm_code)


\* C27: the lines of Concat treat an operand below 100000 as an integer and
\* only an operand of at least 100000 as the address of a string: whenever
\* they read a byte of an operand through r9, r9 holds an address of at least
\* 100000.
C27_ConcatReadsOnlyStrings ==
    (/\ Inside({"Concat"})
     /\ Text[machine.ip] = Ins2("mov", Reg("al"), Mem("r9", 0))) =>
        machine.reg["r9"] >= 100000

\* What a two-operand arithmetic or comparison instruction is to leave for
\* the operands first and second.  The quotient is cut towards zero and the
\* remainder has the sign of first.
Abs(v) == IF v < 0 THEN -v ELSE v
IsRemainder(r, first, second) ==
    /\ Abs(r) < Abs(second)
    /\ r = 0 \/ (r < 0) = (first < 0)
Truth(b) == IF b THEN 1 ELSE 0
IsResult(op, first, second, result) ==
    CASE op = "Add" -> result = first + second
      [] op = "Subtract" -> result = first - second
      [] op = "Multiply" -> result = first * second
      [] op = "Divide" -> IsRemainder(first - result * second, first, second)
      [] op = "Modulo" ->
            /\ IsRemainder(result, first, second)
            /\ \E q \in (-Abs(first))..Abs(first) : first = q * second + result
      [] op = "Less" -> result = Truth(first < second)
      [] op = "LessEqual" -> result = Truth(first <= second)
      [] op = "Greater" -> result = Truth(first > second)
      [] op = "GreaterEqual" -> result = Truth(first >= second)
      [] op = "Equal" -> result = Truth(first = second)
      [] op = "NotEqual" -> result = Truth(first # second)
ArithmeticAndComparison ==
    {"Add", "Subtract", "Multiply", "Divide", "Modulo", "Less", "LessEqual",
     "Greater", "GreaterEqual", "Equal", "NotEqual"}

\* C28: the lines of a two-operand arithmetic or comparison instruction take
\* the value on top of the stack as the second operand and the one below it
\* as the first; when control leaves them the stack is one value shorter and
\* its top is `first op second`: the difference, the quotient or the remainder
\* of first divided by second, or 1 if the signed comparison holds and 0 if
\* not.  They stop the program only when the divisor is 0.
C28_OperationStep ==
    (Inside(ArithmeticAndComparison) /\ machine' # machine)
        => LET op == TextSlice[InstrOf(machine.ip) + 1].op
               first == machine.at.second
               second == machine.at.top
           IN /\ LeavesAtEnd
                     => /\ machine'.reg["rsp"] = machine.at.rsp + 8
                        /\ IsResult(op, first, second,
                                    Peek(machine', machine'.reg["rsp"]))
              /\ machine'.status = "fault"
                     => op \in {"Divide", "Modulo"} /\ second = 0
C28_FirstOpSecond == [][C28_OperationStep]_vars

\* -7 was divided by 2 and the quotient -3 was printed.
C28_Witness ==
    /\ texts # << >>
    /\ TextSlice = << PushInt(-7), PushInt(2), Plain("Divide"), Echo >>
    /\ machine.out = << [format |-> "%d", value |-> -3, bytes |-> << >>] >>

\* C29: a value is false exactly when it is 0, as for the conditional jumps:
\* when control leaves the lines of LogicalAnd the two operands are replaced
\* by 1 if both are nonzero and by 0 otherwise, for LogicalOr by 1 if at least
\* one is nonzero and by 0 otherwise, and for LogicalNot the operand is
\* replaced by 1 if it is 0 and by 0 otherwise, whatever integers they are.
C29_LogicalStep ==
    (Inside({"LogicalAnd", "LogicalOr", "LogicalNot"}) /\ machine' # machine /\ LeavesAtEnd)
        => LET op == TextSlice[InstrOf(machine.ip) + 1].op
               first == machine.at.second
               second == machine.at.top
               result == Peek(machine', machine'.reg["rsp"])
           IN CASE op = "LogicalAnd" ->
                       /\ machine'.reg["rsp"] = machine.at.rsp + 8
                       /\ result = Truth(first # 0 /\ second # 0)
                [] op = "LogicalOr" ->
                       /\ machine'.reg["rsp"] = machine.at.rsp + 8
                       /\ result = Truth(first # 0 \/ second # 0)
                [] op = "LogicalNot" ->
                       /\ machine'.reg["rsp"] = machine.at.rsp
                       /\ result = Truth(second = 0)
C29_LogicalAgreesWithJumps == [][C29_LogicalStep]_vars

\* The lines of e that define the label sym, and the lines that branch.
DefinitionsOf(e, sym) == {j \in 1..Len(e.text) : e.text[j] = LabelDef(sym)}
IsBranch(line) == line.op \in {"jmp", "je", "jne", "jnz", "jge", "jg"}

====
